---------------------------- MODULE Spec2Model ----------------------------
(***************************************************************************)
(* A model of the meme classifier service: the text canonicalizer of       *)
(* text_normalizer.py (noise filtering, join, normalize), the decision     *)
(* rule of model.py's predict, and the /predict handler and startup of     *)
(* main.py.                                                                *)
(*                                                                         *)
(* A Python str is a sequence of characters.  A character is a string      *)
(* token: a printable ASCII character is the one-character string itself,  *)
(* tab and newline are "\t" and "\n", and every other code point is        *)
(* written "U+XXXX".                                                       *)
(***************************************************************************)
EXTENDS Naturals, Integers, Sequences, FiniteSets, Bags, TLC

VARIABLES
    NOISE_KEYWORDS,        \* text_normalizer.NOISE_KEYWORDS (module-level list)
    CHAR_REPLACEMENTS,     \* text_normalizer.CHAR_REPLACEMENTS (translation table)
    UNICODE_REPLACEMENTS,  \* text_normalizer.UNICODE_REPLACEMENTS (ordered dict)
    GEMINI_API_KEY,        \* Config.GEMINI_API_KEY (None when the variable is unset)
    model_file,            \* os.path.exists(config.MODEL_PATH)
    gemini_extractor,      \* main.gemini_extractor
    pixai_model,           \* main.pixai_model
    tokenizer,             \* main.tokenizer
    clip_preprocess,       \* main.clip_preprocess
    app,                   \* "starting", "serving", or "failed" (lifespan raised)
    requests,              \* the /predict requests handled so far, in order
    response,              \* the last /predict response, if there was one
    health,                \* the last /health response, if there was one
    text_list,             \* argument of the canonicalizer call being made
    canon,                 \* what that call returned (None before it returns)
    generated,             \* what the Gemini call of the extract_text call being made does
    extracted,             \* what that call did, once it has returned
    printed,               \* the lines that call printed
    call,                  \* arguments of the normalize call being made (the text, for the pass alone)
    pc,                    \* the statement of normalize that runs next
    local_text,            \* normalize's variable text
    normalized             \* how often the call applied unicodedata.normalize(unicode_norm, .)

vars == <<NOISE_KEYWORDS, CHAR_REPLACEMENTS, UNICODE_REPLACEMENTS, GEMINI_API_KEY,
          model_file, gemini_extractor, pixai_model, tokenizer, clip_preprocess,
          app, requests, response, health, text_list, canon,
          generated, extracted, printed, call, pc, local_text, normalized>>

tables == <<NOISE_KEYWORDS, CHAR_REPLACEMENTS, UNICODE_REPLACEMENTS>>

\* The variables of one extract_text call, and of one normalize call.
extraction == <<generated, extracted, printed>>
stages == <<call, pc, local_text, normalized>>

\* Python's None: a value that is no string of characters.
None == <<"None">>

----------------------------------------------------------------------------
(* Strings.                                                                *)

\* The characters of a printable-ASCII string literal.
Str(s) == [i \in 1..Len(s) |-> SubSeq(s, i, i)]

Range(f) == {f[i] : i \in DOMAIN f}

\* The statements of a function body run in their order: Done(<<a, b, ...>>)
\* is TRUE once each of the values a, b, ... has been computed, in that order.
Done(values) == \A k \in DOMAIN values : Len(values[k]) >= 0

\* The concatenation of a list of strings (by halves, to keep the nesting of
\* the evaluation shallow).
RECURSIVE Concat(_)
Concat(ss) ==
    IF Len(ss) = 0 THEN <<>>
    ELSE IF Len(ss) = 1 THEN ss[1]
    ELSE LET h == Len(ss) \div 2
         IN  Concat(SubSeq(ss, 1, h)) \o Concat(SubSeq(ss, h + 1, Len(ss)))

\* The elements of a set of numbers in increasing order.
Sorted(S) == [n \in 1..Cardinality(S) |-> CHOOSE k \in S : Cardinality({j \in S : j < k}) = n - 1]

\* A list without its repeated elements, first occurrences kept in order.
Dedup(seq) ==
    LET first == Sorted({k \in DOMAIN seq : \A j \in 1..(k - 1) : seq[j] # seq[k]})
    IN  [n \in DOMAIN first |-> seq[first[n]]]

UPPER == Str("ABCDEFGHIJKLMNOPQRSTUVWXYZ") \o <<"U+00D8">>
LOWER == Str("abcdefghijklmnopqrstuvwxyz") \o <<"U+00F8">>

\* str.lower() of one character: the cased characters the inputs use.
LowerChar(c) ==
    IF c \in Range(UPPER) THEN LOWER[CHOOSE i \in DOMAIN UPPER : UPPER[i] = c] ELSE c

str_lower(text) == [i \in DOMAIN text |-> LowerChar(text[i])]

\* text.replace(old, "") for a one-character old.
str_remove(text, old) == SelectSeq(text, LAMBDA c : c # old)

\* hay.startswith(needle)
str_startswith(needle, hay) ==
    Len(needle) <= Len(hay) /\ SubSeq(hay, 1, Len(needle)) = needle

\* needle in hay (Python's substring test).
str_in(needle, hay) ==
    \E i \in 0..(Len(hay) - Len(needle)) : SubSeq(hay, i + 1, i + Len(needle)) = needle

\* sep.join(parts)
RECURSIVE str_join(_, _)
str_join(sep, parts) ==
    IF parts = <<>> THEN <<>>
    ELSE IF Len(parts) = 1 THEN parts[1]
    ELSE parts[1] \o sep \o str_join(sep, Tail(parts))

----------------------------------------------------------------------------
(* Noise keywords (text_normalizer.py).                                    *)

NOISE_KEYWORDS_LIST ==
    <<
       Str("dailyhunt"),
       Str("Download"),
       Str("Google Play"),
       Str("Mr420.BD"),
       Str("OFF JAA"),
       Str("mairala"),
       Str("memes"),
       Str("MEME"),
       Str("cringe"),
       Str("seriously"),
       Str("fakibaji"),
       Str("faki"),
       Str("sagormeme"),
       Str("tangaila"),
       Str("sarcasmbd"),
       Str("Shanto"),
       Str("ferdoush"),
       Str("f /ferdoush.Shanto"),
       Str("FB/FAKIBAJIBD"),
       Str("Chorki ORIGINAL FILM"),
       Str("Chorki"),
       Str("NEWS24"),
       Str("Bengali_thug_life"),
       Str("BANGLA TROLL"),
       Str("Koi Jaaasss"),
       Str("niiladro.hridoy"),
       Str("FB.COM/EtOKhushi"),
       Str("f.memes"),
       Str("BangleMeme"),
       Str("KEU AMARE"),
       Str("SAMAKAL.COM"),
       Str("IndianOil"),
       Str("junction") \o <<"U+09AC", "U+09BE", "U+0982", "U+09B2", "U+09BE">>,
       Str("LinkedIn"),
       Str("Microsoft"),
       Str("BANGLATROLL.COM"),
       Str("jhakkasss"),
       Str("Rahul Islam"),
       Str("memefoxofficial"),
       Str("Asraful Meme's"),
       Str("imgflip.com"),
       Str("Sarcozm"),
       Str("Faizlam"),
       Str("Faizlami"),
       Str("Bamboo.vaiya"),
       Str("RANTAGES"),
       Str("GOATPOSING"),
       Str(".com"),
       Str("RGVzoomin"),
       Str("Follow"),
       Str("@charliekirk11"),
       Str("Sajedul_Islam"),
       Str("@Tamim"),
       Str("judas"),
       Str("almamunk"),
       Str("@rxh"),
       Str("@Atif"),
       Str("Rimon Bro"),
       Str("ab.memeposting"),
       Str("@mahdi"),
       Str("@rolexhalim"),
       Str("@ash"),
       Str("akhib"),
       Str("fb.com")
    >>

\* text.replace(" ", ""): get_norm without the lowercasing.
get_norm_case_sensitive(text) == str_remove(text, " ")

\* "".join(text.lower().split()): all whitespace removed, not only spaces.
get_norm_no_whitespace(text) ==
    SelectSeq(str_lower(text), LAMBDA c : c \notin {" ", "\t", "\n", "U+00A0"})

\* get_norm: text.lower().replace(" ", "")
get_norm(text) == str_remove(str_lower(text), " ")

\* {k: get_norm(k) for k in NOISE_KEYWORDS}: a dict keeps its keys in
\* first-insertion order, one entry per distinct key.
normalized_keywords(kws) ==
    LET keys == Dedup(kws) IN [j \in DOMAIN keys |-> <<keys[j], get_norm(keys[j])>>]

\* The inner loop with norm_kw == norm_item as its test.
first_keyword_exact(nk, norm_item) ==
    LET hits == {j \in DOMAIN nk : nk[j][2] = norm_item}
    IN  IF hits = {} THEN None
        ELSE nk[CHOOSE j \in hits : \A k \in hits : j <= k][1]

\* The inner loop without its break: the last matching entry is credited.
last_keyword(nk, norm_item) ==
    LET hits == {j \in DOMAIN nk : str_in(nk[j][2], norm_item)}
    IN  IF hits = {} THEN None
        ELSE nk[CHOOSE j \in hits : \A k \in hits : j >= k][1]

\* The inner loop of filter_noise_keywords: the original keyword of the first
\* entry, in the dict's order, whose normalized form is in norm_item (the loop
\* breaks there); None if there is none.
first_keyword(nk, norm_item) ==
    LET hits == {j \in DOMAIN nk : str_in(nk[j][2], norm_item)}
    IN  IF hits = {} THEN None
        ELSE nk[CHOOSE j \in hits : \A k \in hits : j <= k][1]

\* The outer loop of filter_noise_keywords, from item i on.  The result is
\* the pair the function returns, and text_list: the list it was given, as
\* the call leaves it (the loop only reads it).
RECURSIVE filter_loop(_, _, _, _, _)
filter_loop(nk, items, i, cleaned_list, keyword_counts) ==
    IF i > Len(items)
    THEN [cleaned_list |-> cleaned_list, keyword_counts |-> keyword_counts,
          text_list |-> items]
    ELSE LET item == items[i]
             hit  == first_keyword(nk, get_norm(item))
         IN  IF hit # None
             THEN filter_loop(nk, items, i + 1, cleaned_list,
                              keyword_counts (+) SetToBag({hit}))
             ELSE filter_loop(nk, items, i + 1, Append(cleaned_list, item),
                              keyword_counts)

\* filter_noise_keywords with cleaned_list.insert(0, item) for the append.
filter_noise_keywords_prepending(items) ==
    LET r == filter_loop(normalized_keywords(NOISE_KEYWORDS), items, 1, <<>>, EmptyBag)
    IN  [cleaned_list |-> [k \in DOMAIN r.cleaned_list |->
                              r.cleaned_list[Len(r.cleaned_list) + 1 - k]],
         keyword_counts |-> r.keyword_counts,
         text_list |-> r.text_list]

\* filter_noise_keywords with text_list.remove(item) for each dropped item.
filter_noise_keywords_in_place(items) ==
    LET r == filter_loop(normalized_keywords(NOISE_KEYWORDS), items, 1, <<>>, EmptyBag)
    IN  [cleaned_list |-> r.cleaned_list,
         keyword_counts |-> r.keyword_counts,
         text_list |-> r.cleaned_list]

\* filter_noise_keywords(text_list): (cleaned_list, keyword_counts)
filter_noise_keywords(items) ==
    filter_loop(normalized_keywords(NOISE_KEYWORDS), items, 1, <<>>, EmptyBag)

----------------------------------------------------------------------------
(* Character classes, over the characters the model's inputs and tables    *)
(* use.                                                                    *)

AsciiLetters == Range(Str("abcdefghijklmnopqrstuvwxyzABCDEFGHIJKLMNOPQRSTUVWXYZ"))
Digits       == Range(Str("0123456789"))

\* Bangla letters and vowel signs (general categories Lo, Mn, Mc).
BanglaChars ==
    {"U+0981", "U+0982", "U+0985", "U+0986", "U+09A1", "U+09A2", "U+09AC",
     "U+09AF", "U+09B0", "U+09B2", "U+09BC", "U+09BE", "U+09C7", "U+09CB",
     "U+09CC", "U+09D7", "U+09DC", "U+09DD", "U+09DF"}

\* \s and str.strip(): space, tab, newline, no-break space.
Whitespace == {" ", "\t", "\n", "U+00A0"}

\* \w: alphabetic characters, marks, decimal digits, connector punctuation.
WordChars == AsciiLetters \cup Digits \cup BanglaChars \cup {"_", "U+00D8", "U+00F8"}

\* \p{punct}: general category P (Pc, Pd, Ps, Pe, Pi, Pf, Po).  The ASCII
\* symbols $ + < = > ^ ` | ~ are category S and are not in it.
Punct ==
    Range(Str("!#%&'()*,-./:;?@[]_{}")) \cup {"\"", "\\"}
    \cup {"U+0964",                                   \* danda
          "U+00AB", "U+00BB",                         \* guillemets
          "U+2013", "U+2014",                         \* en dash, em dash
          "U+2018", "U+2019", "U+201A", "U+201C", "U+201D", "U+201E",
          "U+2026",                                   \* horizontal ellipsis
          "U+3001", "U+3008", "U+3009", "U+300A", "U+300B", "U+300C",
          "U+300D", "U+3010", "U+3011",               \* CJK punctuation
          "U+FF01", "U+FF05", "U+FF08", "U+FF09", "U+FF0C", "U+FF1A",
          "U+FF1B", "U+FF1F"}                         \* fullwidth punctuation

----------------------------------------------------------------------------
(* Regular expressions.  A pattern is a tree; Ends(r, s, i) is the list of *)
(* offsets at which a match of r starting at offset i of s can end, in the *)
(* order a backtracking matcher tries them, so its head is the end of the  *)
(* match the regex engine reports.                                         *)

Lit(s)        == [t |-> "lit", s |-> s]            \* the characters of s
LitI(s)       == [t |-> "liti", s |-> s]           \* the same, ignoring case
In(cs)        == [t |-> "in", cs |-> cs]           \* [...]
NotIn(cs)     == [t |-> "notin", cs |-> cs]        \* [^...]
Cat(rs)       == [t |-> "cat", rs |-> rs]          \* r1 r2 ...
Alt(rs)       == [t |-> "alt", rs |-> rs]          \* r1 | r2 | ...
Rep(r, lo, hi) == [t |-> "rep", r |-> r, lo |-> lo, hi |-> hi]  \* r{lo,hi}, greedy
Inf           == 0 - 1                             \* no upper limit
Opt(r)        == Rep(r, 0, 1)                      \* r?
Star(r)       == Rep(r, 0, Inf)                    \* r*
Plus(r)       == Rep(r, 1, Inf)                    \* r+
Bol           == [t |-> "bol"]                     \* ^
NotBehind(cs) == [t |-> "notbehind", cs |-> cs]    \* (?<![...])
NotAhead(r)   == [t |-> "notahead", r |-> r]       \* (?!r)

\* The characters of a set together with their other-case forms (IGNORECASE).
IgnoreCase(cs) ==
    cs \cup {LowerChar(c) : c \in cs}
       \cup {UPPER[i] : i \in {j \in DOMAIN LOWER : LOWER[j] \in cs}}

\* One list of end offsets without its repetitions.
Ordered(ends) == IF Len(ends) <= 1 THEN ends ELSE Dedup(ends)

\* Matching is tabulated.  The table of a pattern r on a text s has one entry
\* per offset i of s (entry i + 1 is for offset i, from 0 to Len(s)): the
\* offsets at which a match of r that starts at i can end, in the order in
\* which a backtracking matcher tries them, each listed once.

\* r1 then r2: every end of r1, in order, followed by r2 from there.
Then(a, b) ==
    [i \in DOMAIN a |->
        Ordered(Concat([k \in DOMAIN a[i] |-> b[a[i][k] + 1]]))] \o <<>>

\* The concatenation of the patterns whose tables are tabs[k..].
RECURSIVE CatTable(_, _)
CatTable(tabs, k) ==
    IF k = Len(tabs) THEN tabs[k] ELSE Then(tabs[k], CatTable(tabs, k + 1))

\* r1 | r2 | ...: the alternatives in order.
AltTable(tabs, n) ==
    [i \in 1..(n + 1) |->
        Ordered(Concat([k \in DOMAIN tabs |-> tabs[k][i]]))] \o <<>>

\* r* (greedy) for the offsets lo..hi-1, given the same for the offsets from
\* hi on in tab (tab[1] is for offset hi): from an offset a, each end of one
\* more iteration is followed by what r* gives from there, and stopping at a
\* comes last.  An offset's list needs only those of later offsets, so the
\* table is built from the end of the text backwards, by halves.
RECURSIVE StarTable(_, _, _, _)
StarTable(body, lo, hi, tab) ==
    IF hi <= lo THEN tab
    ELSE IF hi = lo + 1
    THEN LET once == SelectSeq(body[lo + 1], LAMBDA j : j > lo)
         IN  IF once = <<>> THEN <<(<<lo>>)>> \o tab
             ELSE <<Ordered(Concat([k \in DOMAIN once |-> tab[once[k] - lo]]) \o <<lo>>)>> \o tab
    ELSE LET mid   == (lo + hi) \div 2
             upper == StarTable(body, mid, hi, tab)
         IN  IF upper # <<>>      \* always: the later offsets are done first
             THEN StarTable(body, lo, mid, upper)
             ELSE tab

\* r{lo,hi} (greedy) for a finite hi: one more iteration is tried before
\* stopping, and stopping is allowed once lo iterations are made.
RECURSIVE RepTable(_, _, _, _)
RepTable(body, n, lo, hi) ==
    IF hi = 0 THEN [i \in 1..(n + 1) |-> <<i - 1>>] \o <<>>
    ELSE LET rest == RepTable(body, n, lo - 1, hi - 1)
         IN  [i \in 1..(n + 1) |->
                Ordered(Concat([k \in DOMAIN body[i] |-> rest[body[i][k] + 1]])
                        \o (IF lo <= 0 THEN <<i - 1>> ELSE <<>>))] \o <<>>

RECURSIVE Ends(_, _)
Ends(r, s) ==
    LET n == Len(s)
        at(i) == i - 1          \* the offset of entry i
    IN  CASE r.t = "lit" ->
               [i \in 1..(n + 1) |->
                   IF at(i) + Len(r.s) <= n /\ SubSeq(s, i, at(i) + Len(r.s)) = r.s
                   THEN <<at(i) + Len(r.s)>> ELSE <<>>] \o <<>>
          [] r.t = "liti" ->
               [i \in 1..(n + 1) |->
                   IF /\ at(i) + Len(r.s) <= n
                      /\ str_lower(SubSeq(s, i, at(i) + Len(r.s))) = str_lower(r.s)
                   THEN <<at(i) + Len(r.s)>> ELSE <<>>] \o <<>>
          [] r.t = "in" ->
               [i \in 1..(n + 1) |->
                   IF i <= n /\ s[i] \in r.cs THEN <<i>> ELSE <<>>] \o <<>>
          [] r.t = "notin" ->
               [i \in 1..(n + 1) |->
                   IF i <= n /\ s[i] \notin r.cs THEN <<i>> ELSE <<>>] \o <<>>
          [] r.t = "cat" ->
               CatTable([k \in DOMAIN r.rs |-> Ends(r.rs[k], s)] \o <<>>, 1)
          [] r.t = "alt" ->
               AltTable([k \in DOMAIN r.rs |-> Ends(r.rs[k], s)] \o <<>>, n)
          [] r.t = "rep" ->
               LET body == Ends(r.r, s)
               IN  IF r.hi # Inf THEN RepTable(body, n, r.lo, r.hi)
                   ELSE LET star == StarTable(body, 0, n, <<(<<n>>)>>)
                        IN  IF r.lo = 0 THEN star
                            ELSE Then(RepTable(body, n, r.lo, r.lo), star)
          [] r.t = "bol" ->
               [i \in 1..(n + 1) |-> IF at(i) = 0 THEN <<0>> ELSE <<>>] \o <<>>
          [] r.t = "notbehind" ->
               [i \in 1..(n + 1) |->
                   IF at(i) > 0 /\ s[at(i)] \in r.cs THEN <<>> ELSE <<at(i)>>] \o <<>>
          [] r.t = "notahead" ->
               LET ahead == Ends(r.r, s)
               IN  [i \in 1..(n + 1) |->
                       IF ahead[i] = <<>> THEN <<at(i)>> ELSE <<>>] \o <<>>

\* pattern.sub: the text cut, left to right, into the non-overlapping matches
\* of the pattern whose table is tab (m = TRUE) and the characters between
\* them (m = FALSE).  No pattern of this module matches the empty string.
\* The scan of the offsets lo..hi-1 starts with the next offset to try at p
\* (the end of the last match, when that lies beyond lo) and is made by
\* halves.
RECURSIVE re_scan(_, _, _, _, _)
re_scan(tab, s, lo, hi, p) ==
    IF hi <= lo THEN [p |-> p, out |-> <<>>]
    ELSE IF hi = lo + 1
    THEN IF p > lo THEN [p |-> p, out |-> <<>>]
         ELSE LET e == tab[lo + 1]
              IN  IF e # <<>> /\ e[1] > lo
                  THEN [p |-> e[1], out |-> <<[m |-> TRUE, s |-> SubSeq(s, lo + 1, e[1])]>>]
                  ELSE [p |-> lo + 1, out |-> <<[m |-> FALSE, s |-> <<s[lo + 1]>>]>>]
    ELSE LET mid   == (lo + hi) \div 2
             left  == re_scan(tab, s, lo, mid, p)
             right == re_scan(tab, s, mid, hi, left.p)
         IN  IF left.p >= lo      \* always: the left half is scanned first
             THEN [p |-> right.p, out |-> left.out \o right.out]
             ELSE [p |-> p, out |-> <<>>]

\* The scan of the whole text, once its table is made.
re_cut(tab, text) ==
    IF Len(tab) > Len(text)      \* always: the table is made first
    THEN re_scan(tab, text, 0, Len(text), 0).out
    ELSE <<>>

re_pieces(r, s) == re_cut(Ends(r, s \o <<>>), s \o <<>>)

\* The text put together again, each match replaced by repl.
re_join(pieces, repl) ==
    Concat([k \in DOMAIN pieces |-> IF pieces[k].m THEN repl ELSE pieces[k].s])

\* pattern.sub(repl, text) for a fixed replacement string.
re_sub(r, repl, text) ==
    IF Done(<<text>>) THEN re_join(re_pieces(r, text), repl) ELSE <<>>

----------------------------------------------------------------------------
(* The compiled patterns of text_normalizer.py.                            *)

\* The character range 1-\ (U+0031 to U+005C).
Range_1_Backslash ==
    Range(Str("123456789:;<=>?@ABCDEFGHIJKLMNOPQRSTUVWXYZ[")) \cup {"\\"}

\* [a-z\\u00a1-\\uffff0-9] of the raw-string pattern: a-z, a backslash, the
\* characters u 0 0 a, the range 1-\, the characters u f f f f, and 0-9.
DomainChars ==
    IgnoreCase(Range(Str("abcdefghijklmnopqrstuvwxyz")) \cup {"\\"} \cup Range(Str("u00a"))
               \cup Range_1_Backslash \cup Range(Str("uffff")) \cup Digits)

\* [a-z\\u00a1-\\uffff]
TldChars ==
    IgnoreCase(Range(Str("abcdefghijklmnopqrstuvwxyz")) \cup {"\\"} \cup Range(Str("u00a"))
               \cup Range_1_Backslash \cup Range(Str("uffff")))

Digit == In(Digits)
DotOctets(n) == Rep(Cat(<<Lit(<<".">>), Rep(Digit, 1, 3)>>), n, n)    \* (?:\.\d{1,3}){n}
DomainLabel == Cat(<<Star(Cat(<<In(DomainChars), Opt(Lit(<<"-">>))>>)), Plus(In(DomainChars))>>)

URL_HANDLER_REGEX ==
    Cat(<<
        \* (?:^|(?<![\w\/\.]))
        Alt(<<Bol, NotBehind(WordChars \cup {"/", "."})>>),
        \* (?:(?:https?:\/\/|ftp:\/\/|www\d{0,3}\.))
        Alt(<<Cat(<<LitI(Str("http")), Opt(LitI(Str("s"))), Lit(Str("://"))>>),
              LitI(Str("ftp://")),
              Cat(<<LitI(Str("www")), Rep(Digit, 0, 3), Lit(<<".">>)>>)>>),
        \* (?:\S+(?::\S*)?@)?
        Opt(Cat(<<Plus(NotIn(Whitespace)),
                  Opt(Cat(<<Lit(<<":">>), Star(NotIn(Whitespace))>>)),
                  Lit(<<"@">>)>>)),
        Alt(<<
            Cat(<<
                \* (?!(?:10|127)(?:\.\d{1,3}){3})
                NotAhead(Cat(<<Alt(<<Lit(Str("10")), Lit(Str("127"))>>), DotOctets(3)>>)),
                \* (?!(?:169\.254|192\.168)(?:\.\d{1,3}){2})
                NotAhead(Cat(<<Alt(<<Lit(Str("169.254")), Lit(Str("192.168"))>>), DotOctets(2)>>)),
                \* (?!172\.(?:1[6-9]|2\d|3[0-1])(?:\.\d{1,3}){2})
                NotAhead(Cat(<<Lit(Str("172.")),
                               Alt(<<Cat(<<Lit(<<"1">>), In(Range(Str("6789")))>>),
                                     Cat(<<Lit(<<"2">>), Digit>>),
                                     Cat(<<Lit(<<"3">>), In(Range(Str("01")))>>)>>),
                               DotOctets(2)>>)),
                \* (?:[1-9]\d?|1\d\d|2[01]\d|22[0-3])
                Alt(<<Cat(<<In(Range(Str("123456789"))), Opt(Digit)>>),
                      Cat(<<Lit(<<"1">>), Digit, Digit>>),
                      Cat(<<Lit(<<"2">>), In(Range(Str("01"))), Digit>>),
                      Cat(<<Lit(Str("22")), In(Range(Str("0123")))>>)>>),
                \* (?:\.(?:1?\d{1,2}|2[0-4]\d|25[0-5])){2}
                Rep(Cat(<<Lit(<<".">>),
                          Alt(<<Cat(<<Opt(Lit(<<"1">>)), Rep(Digit, 1, 2)>>),
                                Cat(<<Lit(<<"2">>), In(Range(Str("01234"))), Digit>>),
                                Cat(<<Lit(Str("25")), In(Range(Str("012345")))>>)>>)>>), 2, 2),
                \* (?:\.(?:[1-9]\d?|1\d\d|2[0-4]\d|25[0-4]))
                Cat(<<Lit(<<".">>),
                      Alt(<<Cat(<<In(Range(Str("123456789"))), Opt(Digit)>>),
                            Cat(<<Lit(<<"1">>), Digit, Digit>>),
                            Cat(<<Lit(<<"2">>), In(Range(Str("01234"))), Digit>>),
                            Cat(<<Lit(Str("25")), In(Range(Str("01234")))>>)>>)>>)
            >>),
            Cat(<<
                \* (?:(?:[a-z\\u00a1-\\uffff0-9]-?)*[a-z\\u00a1-\\uffff0-9]+)
                DomainLabel,
                \* (?:\.(?:[a-z\\u00a1-\\uffff0-9]-?)*[a-z\\u00a1-\\uffff0-9]+)*
                Star(Cat(<<Lit(<<".">>), DomainLabel>>)),
                \* (?:\.(?:[a-z\\u00a1-\\uffff]{2,}))
                Cat(<<Lit(<<".">>), Rep(In(TldChars), 2, Inf)>>)
            >>),
            \* (?:(localhost))
            LitI(Str("localhost"))
        >>),
        \* (?::\d{2,5})?
        Opt(Cat(<<Lit(<<":">>), Rep(Digit, 2, 5)>>)),
        \* (?:\/[^\)\]\}\s]*)?
        Opt(Cat(<<Lit(<<"/">>), Star(NotIn({")", "]", "}"} \cup Whitespace))>>))
    >>)

WHITESPACE_HANDLER_REGEX == Plus(In(Whitespace))      \* \s+
PUNCT_HANDLER_REGEX == In(Punct)                      \* \p{punct}


(***************************************************************************)
(* The module-level tables of text_normalizer.py, as written in the source. *)
(***************************************************************************)

\* The dict passed to str.maketrans: one pair per entry, in source order.
CHAR_REPLACEMENTS_ITEMS ==
    << <<"U+00B9", <<"1">>>>, <<"U+00B2", <<"2">>>>, <<"U+00B3", <<"3">>>>, <<"U+00C0", <<"A">>>>,
       <<"U+00C1", <<"A">>>>, <<"U+00C2", <<"A">>>>, <<"U+00C3", <<"A">>>>, <<"U+00C4", <<"A">>>>,
       <<"U+00C5", <<"A">>>>, <<"U+0100", <<"A">>>>, <<"U+0102", <<"A">>>>, <<"U+0104", <<"A">>>>,
       <<"U+01CD", <<"A">>>>, <<"U+01DE", <<"A">>>>, <<"U+01E0", <<"A">>>>, <<"U+01FA", <<"A">>>>,
       <<"U+0200", <<"A">>>>, <<"U+0202", <<"A">>>>, <<"U+0226", <<"A">>>>, <<"U+1E00", <<"A">>>>,
       <<"U+1EA0", <<"A">>>>, <<"U+1EA2", <<"A">>>>, <<"U+1EA4", <<"A">>>>, <<"U+1EA6", <<"A">>>>,
       <<"U+1EA8", <<"A">>>>, <<"U+1EAA", <<"A">>>>, <<"U+1EAC", <<"A">>>>, <<"U+1EAE", <<"A">>>>,
       <<"U+1EB0", <<"A">>>>, <<"U+1EB2", <<"A">>>>, <<"U+1EB4", <<"A">>>>, <<"U+1EB6", <<"A">>>>,
       <<"U+00E0", <<"a">>>>, <<"U+00E1", <<"a">>>>, <<"U+00E2", <<"a">>>>, <<"U+00E3", <<"a">>>>,
       <<"U+00E4", <<"a">>>>, <<"U+00E5", <<"a">>>>, <<"U+00AA", <<"a">>>>, <<"U+0101", <<"a">>>>,
       <<"U+0103", <<"a">>>>, <<"U+0105", <<"a">>>>, <<"U+01CE", <<"a">>>>, <<"U+01DF", <<"a">>>>,
       <<"U+01E1", <<"a">>>>, <<"U+01FB", <<"a">>>>, <<"U+0201", <<"a">>>>, <<"U+0203", <<"a">>>>,
       <<"U+0227", <<"a">>>>, <<"U+1E01", <<"a">>>>, <<"U+1EA1", <<"a">>>>, <<"U+1EA3", <<"a">>>>,
       <<"U+1EA5", <<"a">>>>, <<"U+1EA7", <<"a">>>>, <<"U+1EA9", <<"a">>>>, <<"U+1EAB", <<"a">>>>,
       <<"U+1EAD", <<"a">>>>, <<"U+1EAF", <<"a">>>>, <<"U+1EB1", <<"a">>>>, <<"U+1EB3", <<"a">>>>,
       <<"U+1EB5", <<"a">>>>, <<"U+1EB7", <<"a">>>>, <<"U+1E02", <<"B">>>>, <<"U+1E04", <<"B">>>>,
       <<"U+1E06", <<"B">>>>, <<"U+1E03", <<"b">>>>, <<"U+1E05", <<"b">>>>, <<"U+1E07", <<"b">>>>,
       <<"U+00C7", <<"C">>>>, <<"U+0106", <<"C">>>>, <<"U+0108", <<"C">>>>, <<"U+010A", <<"C">>>>,
       <<"U+010C", <<"C">>>>, <<"U+1E08", <<"C">>>>, <<"U+00E7", <<"c">>>>, <<"U+0107", <<"c">>>>,
       <<"U+0109", <<"c">>>>, <<"U+010B", <<"c">>>>, <<"U+010D", <<"c">>>>, <<"U+1E09", <<"c">>>>,
       <<"U+00D0", <<"D">>>>, <<"U+010E", <<"D">>>>, <<"U+0110", <<"D">>>>, <<"U+1E0A", <<"D">>>>,
       <<"U+1E0C", <<"D">>>>, <<"U+1E0E", <<"D">>>>, <<"U+1E10", <<"D">>>>, <<"U+1E12", <<"D">>>>,
       <<"U+010F", <<"d">>>>, <<"U+0111", <<"d">>>>, <<"U+1E0B", <<"d">>>>, <<"U+1E0D", <<"d">>>>,
       <<"U+1E0F", <<"d">>>>, <<"U+1E11", <<"d">>>>, <<"U+1E13", <<"d">>>>, <<"U+00C8", <<"E">>>>,
       <<"U+00C9", <<"E">>>>, <<"U+00CA", <<"E">>>>, <<"U+00CB", <<"E">>>>, <<"U+0112", <<"E">>>>,
       <<"U+0114", <<"E">>>>, <<"U+0116", <<"E">>>>, <<"U+0118", <<"E">>>>, <<"U+011A", <<"E">>>>,
       <<"U+0204", <<"E">>>>, <<"U+0206", <<"E">>>>, <<"U+0228", <<"E">>>>, <<"U+1E14", <<"E">>>>,
       <<"U+1E16", <<"E">>>>, <<"U+1E18", <<"E">>>>, <<"U+1E1A", <<"E">>>>, <<"U+1E1C", <<"E">>>>,
       <<"U+1EB8", <<"E">>>>, <<"U+1EBA", <<"E">>>>, <<"U+1EBC", <<"E">>>>, <<"U+1EBE", <<"E">>>>,
       <<"U+1EC0", <<"E">>>>, <<"U+1EC2", <<"E">>>>, <<"U+1EC4", <<"E">>>>, <<"U+1EC6", <<"E">>>>,
       <<"U+00E8", <<"e">>>>, <<"U+00E9", <<"e">>>>, <<"U+00EA", <<"e">>>>, <<"U+00EB", <<"e">>>>,
       <<"U+0113", <<"e">>>>, <<"U+0115", <<"e">>>>, <<"U+0117", <<"e">>>>, <<"U+0119", <<"e">>>>,
       <<"U+011B", <<"e">>>>, <<"U+0205", <<"e">>>>, <<"U+0207", <<"e">>>>, <<"U+0229", <<"e">>>>,
       <<"U+1E15", <<"e">>>>, <<"U+1E17", <<"e">>>>, <<"U+1E19", <<"e">>>>, <<"U+1E1B", <<"e">>>>,
       <<"U+1E1D", <<"e">>>>, <<"U+1EB9", <<"e">>>>, <<"U+1EBB", <<"e">>>>, <<"U+1EBD", <<"e">>>>,
       <<"U+1EBF", <<"e">>>>, <<"U+1EC1", <<"e">>>>, <<"U+1EC3", <<"e">>>>, <<"U+1EC5", <<"e">>>>,
       <<"U+1EC7", <<"e">>>>, <<"U+1E1E", <<"F">>>>, <<"U+1E1F", <<"f">>>>, <<"U+011C", <<"G">>>>,
       <<"U+011E", <<"G">>>>, <<"U+0120", <<"G">>>>, <<"U+0122", <<"G">>>>, <<"U+01E6", <<"G">>>>,
       <<"U+01F4", <<"G">>>>, <<"U+1E20", <<"G">>>>, <<"U+011D", <<"g">>>>, <<"U+011F", <<"g">>>>,
       <<"U+0121", <<"g">>>>, <<"U+0123", <<"g">>>>, <<"U+01E7", <<"g">>>>, <<"U+01F5", <<"g">>>>,
       <<"U+1E21", <<"g">>>>, <<"U+0124", <<"H">>>>, <<"U+0126", <<"H">>>>, <<"U+021E", <<"H">>>>,
       <<"U+1E22", <<"H">>>>, <<"U+1E24", <<"H">>>>, <<"U+1E26", <<"H">>>>, <<"U+1E28", <<"H">>>>,
       <<"U+1E2A", <<"H">>>>, <<"U+0125", <<"h">>>>, <<"U+0127", <<"h">>>>, <<"U+021F", <<"h">>>>,
       <<"U+1E23", <<"h">>>>, <<"U+1E25", <<"h">>>>, <<"U+1E27", <<"h">>>>, <<"U+1E29", <<"h">>>>,
       <<"U+1E2B", <<"h">>>>, <<"U+1E96", <<"h">>>>, <<"U+00CC", <<"I">>>>, <<"U+00CD", <<"I">>>>,
       <<"U+00CE", <<"I">>>>, <<"U+00CF", <<"I">>>>, <<"U+0128", <<"I">>>>, <<"U+012A", <<"I">>>>,
       <<"U+012C", <<"I">>>>, <<"U+012E", <<"I">>>>, <<"U+0130", <<"I">>>>, <<"U+01CF", <<"I">>>>,
       <<"U+0208", <<"I">>>>, <<"U+020A", <<"I">>>>, <<"U+1E2C", <<"I">>>>, <<"U+1E2E", <<"I">>>>,
       <<"U+1EC8", <<"I">>>>, <<"U+1ECA", <<"I">>>>, <<"U+00EC", <<"i">>>>, <<"U+00ED", <<"i">>>>,
       <<"U+00EE", <<"i">>>>, <<"U+00EF", <<"i">>>>, <<"U+0129", <<"i">>>>, <<"U+012B", <<"i">>>>,
       <<"U+012D", <<"i">>>>, <<"U+012F", <<"i">>>>, <<"U+0131", <<"i">>>>, <<"U+01D0", <<"i">>>>,
       <<"U+0209", <<"i">>>>, <<"U+020B", <<"i">>>>, <<"U+1E2D", <<"i">>>>, <<"U+1E2F", <<"i">>>>,
       <<"U+1EC9", <<"i">>>>, <<"U+1ECB", <<"i">>>>, <<"U+0134", <<"J">>>>, <<"U+0135", <<"j">>>>,
       <<"U+0136", <<"K">>>>, <<"U+01E8", <<"K">>>>, <<"U+1E30", <<"K">>>>, <<"U+1E32", <<"K">>>>,
       <<"U+1E34", <<"K">>>>, <<"U+0137", <<"k">>>>, <<"U+01E9", <<"k">>>>, <<"U+1E31", <<"k">>>>,
       <<"U+1E33", <<"k">>>>, <<"U+1E35", <<"k">>>>, <<"U+0139", <<"L">>>>, <<"U+013B", <<"L">>>>,
       <<"U+013D", <<"L">>>>, <<"U+013F", <<"L">>>>, <<"U+0141", <<"L">>>>, <<"U+1E36", <<"L">>>>,
       <<"U+1E38", <<"L">>>>, <<"U+1E3A", <<"L">>>>, <<"U+1E3C", <<"L">>>>, <<"U+013A", <<"l">>>>,
       <<"U+013C", <<"l">>>>, <<"U+013E", <<"l">>>>, <<"U+0140", <<"l">>>>, <<"U+0142", <<"l">>>>,
       <<"U+1E37", <<"l">>>>, <<"U+1E39", <<"l">>>>, <<"U+1E3B", <<"l">>>>, <<"U+1E3D", <<"l">>>>,
       <<"U+1E3E", <<"M">>>>, <<"U+1E40", <<"M">>>>, <<"U+1E42", <<"M">>>>, <<"U+1E3F", <<"m">>>>,
       <<"U+1E41", <<"m">>>>, <<"U+1E43", <<"m">>>>, <<"U+00D1", <<"N">>>>, <<"U+0143", <<"N">>>>,
       <<"U+0145", <<"N">>>>, <<"U+0147", <<"N">>>>, <<"U+01F8", <<"N">>>>, <<"U+1E44", <<"N">>>>,
       <<"U+1E46", <<"N">>>>, <<"U+1E48", <<"N">>>>, <<"U+1E4A", <<"N">>>>, <<"U+00F1", <<"n">>>>,
       <<"U+0144", <<"n">>>>, <<"U+0146", <<"n">>>>, <<"U+0148", <<"n">>>>, <<"U+01F9", <<"n">>>>,
       <<"U+1E45", <<"n">>>>, <<"U+1E47", <<"n">>>>, <<"U+1E49", <<"n">>>>, <<"U+1E4B", <<"n">>>>,
       <<"U+00D2", <<"O">>>>, <<"U+00D3", <<"O">>>>, <<"U+00D4", <<"O">>>>, <<"U+00D5", <<"O">>>>,
       <<"U+00D6", <<"O">>>>, <<"U+014C", <<"O">>>>, <<"U+014E", <<"O">>>>, <<"U+0150", <<"O">>>>,
       <<"U+01A0", <<"O">>>>, <<"U+01D1", <<"O">>>>, <<"U+01EA", <<"O">>>>, <<"U+01EC", <<"O">>>>,
       <<"U+020C", <<"O">>>>, <<"U+020E", <<"O">>>>, <<"U+022A", <<"O">>>>, <<"U+022C", <<"O">>>>,
       <<"U+022E", <<"O">>>>, <<"U+0230", <<"O">>>>, <<"U+1E4C", <<"O">>>>, <<"U+1E4E", <<"O">>>>,
       <<"U+1E50", <<"O">>>>, <<"U+1E52", <<"O">>>>, <<"U+1ECC", <<"O">>>>, <<"U+1ECE", <<"O">>>>,
       <<"U+1ED0", <<"O">>>>, <<"U+1ED2", <<"O">>>>, <<"U+1ED4", <<"O">>>>, <<"U+1ED6", <<"O">>>>,
       <<"U+1ED8", <<"O">>>>, <<"U+1EDA", <<"O">>>>, <<"U+1EDC", <<"O">>>>, <<"U+1EDE", <<"O">>>>,
       <<"U+1EE0", <<"O">>>>, <<"U+1EE2", <<"O">>>>, <<"U+00F2", <<"o">>>>, <<"U+00F3", <<"o">>>>,
       <<"U+00F4", <<"o">>>>, <<"U+00F5", <<"o">>>>, <<"U+00F6", <<"o">>>>, <<"U+014D", <<"o">>>>,
       <<"U+014F", <<"o">>>>, <<"U+0151", <<"o">>>>, <<"U+01A1", <<"o">>>>, <<"U+01D2", <<"o">>>>,
       <<"U+01EB", <<"o">>>>, <<"U+01ED", <<"o">>>>, <<"U+020D", <<"o">>>>, <<"U+020F", <<"o">>>>,
       <<"U+022B", <<"o">>>>, <<"U+022D", <<"o">>>>, <<"U+022F", <<"o">>>>, <<"U+0231", <<"o">>>>,
       <<"U+1E4D", <<"o">>>>, <<"U+1E4F", <<"o">>>>, <<"U+1E51", <<"o">>>>, <<"U+1E53", <<"o">>>>,
       <<"U+1ECD", <<"o">>>>, <<"U+1ECF", <<"o">>>>, <<"U+1ED1", <<"o">>>>, <<"U+1ED3", <<"o">>>>,
       <<"U+1ED5", <<"o">>>>, <<"U+1ED7", <<"o">>>>, <<"U+1ED9", <<"o">>>>, <<"U+1EDB", <<"o">>>>,
       <<"U+1EDD", <<"o">>>>, <<"U+1EDF", <<"o">>>>, <<"U+1EE1", <<"o">>>>, <<"U+1EE3", <<"o">>>>,
       <<"U+1E54", <<"P">>>>, <<"U+1E56", <<"P">>>>, <<"U+1E55", <<"p">>>>, <<"U+1E57", <<"p">>>>,
       <<"U+0154", <<"R">>>>, <<"U+0156", <<"R">>>>, <<"U+0158", <<"R">>>>, <<"U+0210", <<"R">>>>,
       <<"U+0212", <<"R">>>>, <<"U+1E58", <<"R">>>>, <<"U+1E5A", <<"R">>>>, <<"U+1E5C", <<"R">>>>,
       <<"U+1E5E", <<"R">>>>, <<"U+0155", <<"r">>>>, <<"U+0157", <<"r">>>>, <<"U+0159", <<"r">>>>,
       <<"U+0211", <<"r">>>>, <<"U+0213", <<"r">>>>, <<"U+1E59", <<"r">>>>, <<"U+1E5B", <<"r">>>>,
       <<"U+1E5D", <<"r">>>>, <<"U+1E5F", <<"r">>>>, <<"U+015A", <<"S">>>>, <<"U+015C", <<"S">>>>,
       <<"U+015E", <<"S">>>>, <<"U+0160", <<"s">>>>, <<"U+0218", <<"S">>>>, <<"U+1E60", <<"S">>>>,
       <<"U+1E62", <<"S">>>>, <<"U+1E64", <<"S">>>>, <<"U+1E66", <<"S">>>>, <<"U+1E68", <<"S">>>>,
       <<"U+015B", <<"s">>>>, <<"U+015D", <<"s">>>>, <<"U+015F", <<"s">>>>, <<"U+0161", <<"s">>>>,
       <<"U+0219", <<"s">>>>, <<"U+1E61", <<"s">>>>, <<"U+1E63", <<"s">>>>, <<"U+1E65", <<"s">>>>,
       <<"U+1E67", <<"s">>>>, <<"U+1E69", <<"s">>>>, <<"U+0162", <<"T">>>>, <<"U+0164", <<"T">>>>,
       <<"U+0166", <<"T">>>>, <<"U+021A", <<"T">>>>, <<"U+1E6A", <<"T">>>>, <<"U+1E6C", <<"T">>>>,
       <<"U+1E6E", <<"T">>>>, <<"U+1E70", <<"T">>>>, <<"U+0163", <<"t">>>>, <<"U+0165", <<"t">>>>,
       <<"U+0167", <<"t">>>>, <<"U+021B", <<"t">>>>, <<"U+1E6B", <<"t">>>>, <<"U+1E6D", <<"t">>>>,
       <<"U+1E6F", <<"t">>>>, <<"U+1E71", <<"t">>>>, <<"U+1E97", <<"t">>>>, <<"U+00D9", <<"U">>>>,
       <<"U+00DA", <<"U">>>>, <<"U+00DB", <<"U">>>>, <<"U+00DC", <<"U">>>>, <<"U+0168", <<"U">>>>,
       <<"U+016A", <<"U">>>>, <<"U+016C", <<"U">>>>, <<"U+016E", <<"U">>>>, <<"U+0170", <<"U">>>>,
       <<"U+0172", <<"U">>>>, <<"U+01AF", <<"U">>>>, <<"U+01D3", <<"U">>>>, <<"U+01D5", <<"U">>>>,
       <<"U+01D7", <<"U">>>>, <<"U+01D9", <<"U">>>>, <<"U+01DB", <<"U">>>>, <<"U+0214", <<"U">>>>,
       <<"U+0216", <<"U">>>>, <<"U+1E72", <<"U">>>>, <<"U+1E74", <<"U">>>>, <<"U+1E76", <<"U">>>>,
       <<"U+1E78", <<"U">>>>, <<"U+1E7A", <<"U">>>>, <<"U+1EE4", <<"U">>>>, <<"U+1EE6", <<"U">>>>,
       <<"U+1EE8", <<"U">>>>, <<"U+1EEA", <<"U">>>>, <<"U+1EEC", <<"U">>>>, <<"U+1EEE", <<"U">>>>,
       <<"U+1EF0", <<"U">>>>, <<"U+00F9", <<"u">>>>, <<"U+00FA", <<"u">>>>, <<"U+00FB", <<"u">>>>,
       <<"U+00FC", <<"u">>>>, <<"U+0169", <<"u">>>>, <<"U+016B", <<"u">>>>, <<"U+016D", <<"u">>>>,
       <<"U+016F", <<"u">>>>, <<"U+0171", <<"u">>>>, <<"U+0173", <<"u">>>>, <<"U+01B0", <<"u">>>>,
       <<"U+01D4", <<"u">>>>, <<"U+01D6", <<"u">>>>, <<"U+01D8", <<"u">>>>, <<"U+01DA", <<"u">>>>,
       <<"U+01DC", <<"u">>>>, <<"U+0215", <<"u">>>>, <<"U+0217", <<"u">>>>, <<"U+1E73", <<"u">>>>,
       <<"U+1E75", <<"u">>>>, <<"U+1E77", <<"u">>>>, <<"U+1E79", <<"u">>>>, <<"U+1E7B", <<"u">>>>,
       <<"U+1EE5", <<"u">>>>, <<"U+1EE7", <<"u">>>>, <<"U+1EE9", <<"u">>>>, <<"U+1EEB", <<"u">>>>,
       <<"U+1EED", <<"u">>>>, <<"U+1EEF", <<"u">>>>, <<"U+1EF1", <<"u">>>>, <<"U+1E7C", <<"V">>>>,
       <<"U+1E7E", <<"V">>>>, <<"U+1E7D", <<"v">>>>, <<"U+1E7F", <<"v">>>>, <<"U+0174", <<"W">>>>,
       <<"U+1E80", <<"W">>>>, <<"U+1E82", <<"W">>>>, <<"U+1E84", <<"W">>>>, <<"U+1E86", <<"W">>>>,
       <<"U+1E88", <<"W">>>>, <<"U+0175", <<"w">>>>, <<"U+1E81", <<"w">>>>, <<"U+1E83", <<"w">>>>,
       <<"U+1E85", <<"w">>>>, <<"U+1E87", <<"w">>>>, <<"U+1E89", <<"w">>>>, <<"U+1E98", <<"w">>>>,
       <<"U+1E8A", <<"X">>>>, <<"U+1E8C", <<"X">>>>, <<"U+1E8B", <<"x">>>>, <<"U+1E8D", <<"x">>>>,
       <<"U+00DD", <<"y">>>>, <<"U+0176", <<"Y">>>>, <<"U+0178", <<"Y">>>>, <<"U+0232", <<"Y">>>>,
       <<"U+1E8E", <<"Y">>>>, <<"U+1EF2", <<"Y">>>>, <<"U+1EF4", <<"Y">>>>, <<"U+1EF6", <<"Y">>>>,
       <<"U+1EF8", <<"Y">>>>, <<"U+00FD", <<"y">>>>, <<"U+00FF", <<"y">>>>, <<"U+0177", <<"y">>>>,
       <<"U+0233", <<"y">>>>, <<"U+1E8F", <<"y">>>>, <<"U+1EF3", <<"y">>>>, <<"U+1EF5", <<"y">>>>,
       <<"U+1EF7", <<"y">>>>, <<"U+1EF9", <<"y">>>>, <<"U+1E99", <<"y">>>>, <<"U+0179", <<"Z">>>>,
       <<"U+017B", <<"Z">>>>, <<"U+017D", <<"Z">>>>, <<"U+1E90", <<"Z">>>>, <<"U+1E92", <<"Z">>>>,
       <<"U+1E94", <<"Z">>>>, <<"U+017A", <<"z">>>>, <<"U+017C", <<"z">>>>, <<"U+017E", <<"z">>>>,
       <<"U+1E91", <<"z">>>>, <<"U+1E93", <<"z">>>>, <<"U+1E95", <<"z">>>>, <<"U+0132", <<"I", "J">>>>,
       <<"U+0133", <<"i", "j">>>>, <<"U+00F8", <<"o">>>>, <<"U+00D8", <<"O">>>>, <<"U+0268", <<"i">>>>,
       <<"U+00F0", <<"d">>>> >>

\* str.maketrans(dict): a table from character to replacement string; a key
\* written twice in a dict literal keeps its last value.
maketrans(items) ==
    [c \in {items[k][1] : k \in DOMAIN items} |->
        items[CHOOSE k \in DOMAIN items :
                 /\ items[k][1] = c
                 /\ \A j \in DOMAIN items : items[j][1] = c => j <= k][2]]

\* The dict UNICODE_REPLACEMENTS: <<key, value>> pairs in insertion order.
UNICODE_REPLACEMENTS_ITEMS ==
    << <<<<"U+00AD">>, <<>>>>,
       <<<<"U+09AF", "U+09BC">>, <<"U+09DF">>>>,
       <<<<"U+09A2", "U+09BC">>, <<"U+09DD">>>>,
       <<<<"U+09A1", "U+09BC">>, <<"U+09DC">>>>,
       <<<<"U+09AC", "U+09BC">>, <<"U+09B0">>>>,
       <<<<"U+09C7", "U+09BE">>, <<"U+09CB">>>>,
       <<<<"U+09C7", "U+09D7">>, <<"U+09CC">>>>,
       <<<<"U+0985", "U+09BE">>, <<"U+0986">>>>,
       <<<<"U+09C7", "U+0981", "U+09D7">>, <<"U+09CC", "U+0981">>>>,
       <<<<"U+09C7", "U+0981", "U+09BE">>, <<"U+09CB", "U+0981">>>>,
       <<<<"U+09C7", "(", "[", "^", "U+09D7", "]", ")", "U+09D7">>, <<"\\", "g", "<", "1", ">", "U+09CC">>>>,
       <<<<"U+00A0">>, <<" ">>>>,
       <<<<"U+200B">>, <<>>>>,
       <<<<"U+2060">>, <<>>>>,
       <<<<"U+201E">>, <<"\"">>>>,
       <<<<"U+201C">>, <<"\"">>>>,
       <<<<"U+201D">>, <<"\"">>>>,
       <<<<"U+2013">>, <<"-">>>>,
       <<<<"U+2014">>, <<" ", "-", " ">>>>,
       <<<<"U+00B4">>, <<"'">>>>,
       <<<<"U+2018">>, <<"'">>>>,
       <<<<"U+201A">>, <<"'">>>>,
       <<<<"U+2019">>, <<"'">>>>,
       <<<<"U+00B4", "U+00B4">>, <<"\"">>>>,
       <<<<"U+2026">>, <<".", ".", ".">>>>,
       <<<<"U+00A0", "U+00AB", "U+00A0">>, <<"\"">>>>,
       <<<<"U+00AB", "U+00A0">>, <<"\"">>>>,
       <<<<"U+00AB">>, <<"\"">>>>,
       <<<<"U+00A0", "U+00BB", "U+00A0">>, <<"\"">>>>,
       <<<<"U+00A0", "U+00BB">>, <<"\"">>>>,
       <<<<"U+00BB">>, <<"\"">>>>,
       <<<<"U+09F7">>, <<"U+0964">>>>,
       <<<<"U+FF0C">>, <<",">>>>,
       <<<<"U+3001">>, <<",">>>>,
       <<<<"U+2236">>, <<":">>>>,
       <<<<"U+FF1A">>, <<":">>>>,
       <<<<"U+FF1F">>, <<"?">>>>,
       <<<<"U+300A">>, <<"\"">>>>,
       <<<<"U+300B">>, <<"\"">>>>,
       <<<<"U+FF09">>, <<")">>>>,
       <<<<"U+FF01">>, <<"!">>>>,
       <<<<"U+FF08">>, <<"(">>>>,
       <<<<"U+FF1B">>, <<";">>>>,
       <<<<"U+300D">>, <<"\"">>>>,
       <<<<"U+300C">>, <<"\"">>>>,
       <<<<"U+FF10">>, <<"0">>>>,
       <<<<"U+FF11">>, <<"1">>>>,
       <<<<"U+FF12">>, <<"2">>>>,
       <<<<"U+FF13">>, <<"3">>>>,
       <<<<"U+FF14">>, <<"4">>>>,
       <<<<"U+FF15">>, <<"5">>>>,
       <<<<"U+FF16">>, <<"6">>>>,
       <<<<"U+FF17">>, <<"7">>>>,
       <<<<"U+FF18">>, <<"8">>>>,
       <<<<"U+FF19">>, <<"9">>>>,
       <<<<"U+FF5E">>, <<"~">>>>,
       <<<<"U+2501">>, <<"-">>>>,
       <<<<"U+3008">>, <<"<">>>>,
       <<<<"U+3009">>, <<">">>>>,
       <<<<"U+3010">>, <<"[">>>>,
       <<<<"U+3011">>, <<"]">>>>,
       <<<<"U+FF05">>, <<"%">>>> >>

\* str.translate(table): every character that is a key of the table is
\* replaced by the table's string, every other character is kept.
translate(text, table) ==
    Concat([i \in DOMAIN text |->
               IF text[i] \in DOMAIN table THEN table[text[i]] ELSE <<text[i]>>])

\* dict.get(key, default) on a dict kept as a sequence of pairs.
dict_get(d, key, default) ==
    IF \E k \in DOMAIN d : d[k][1] = key
    THEN d[CHOOSE k \in DOMAIN d : d[k][1] = key][2]
    ELSE default

\* The one key of UNICODE_REPLACEMENTS that is a pattern: ে([^ৗ])ৗ
GroupKey == <<"U+09C7", "(", "[", "^", "U+09D7", "]", ")", "U+09D7">>

\* re.compile of one key: the group pattern, or the key's own characters.
compile_key(key) ==
    IF key = GroupKey
    THEN Cat(<<Lit(<<"U+09C7">>), NotIn({"U+09D7"}), Lit(<<"U+09D7">>)>>)
    ELSE Lit(key)

\* re.compile("|".join(UNICODE_REPLACEMENTS.keys())): the keys as
\* alternatives, tried in the dict's order.  Compiled once, at import.
UNICODE_REPLACEMENTS_REGEX ==
    Alt([k \in DOMAIN UNICODE_REPLACEMENTS_ITEMS |->
            compile_key(UNICODE_REPLACEMENTS_ITEMS[k][1])])

\* match.group(1) taken for the first character of the match.
group_1_first(m) ==
    IF /\ Len(m) = 3 /\ m[1] = "U+09C7" /\ m[3] = "U+09D7"
       /\ \A k \in 1..10 : UNICODE_REPLACEMENTS_ITEMS[k][1] # m
    THEN <<m[1]>>
    ELSE Str("None")

\* match.group(1) of a match of UNICODE_REPLACEMENTS_REGEX, as formatted by
\* f"{match.group(1)}": the character matched by [^ৗ] when the group
\* alternative matched, and the text "None" when another alternative did.
group_1(m) ==
    IF /\ Len(m) = 3 /\ m[1] = "U+09C7" /\ m[3] = "U+09D7"
       /\ \A k \in 1..10 : UNICODE_REPLACEMENTS_ITEMS[k][1] # m
    THEN <<m[2]>>
    ELSE Str("None")

\* The replacement callback of the UNICODE_REPLACEMENTS_REGEX.sub call:
\* UNICODE_REPLACEMENTS.get(match.group(0), f"{match.group(1)}ৌ")
unicode_replacement(m) == dict_get(UNICODE_REPLACEMENTS, m, group_1(m) \o <<"U+09CC">>)

\* The text put together again, each match replaced by what the callback
\* gives for it.
unicode_replacements_join(pieces) ==
    Concat([k \in DOMAIN pieces |->
               IF pieces[k].m THEN unicode_replacement(pieces[k].s) ELSE pieces[k].s])

\* UNICODE_REPLACEMENTS_REGEX.sub(lambda match: ..., text)
unicode_replacements_sub(text) ==
    IF Done(<<text>>)
    THEN unicode_replacements_join(re_pieces(UNICODE_REPLACEMENTS_REGEX, text))
    ELSE <<>>

\* The quote patterns: alternatives in the order of the source lists.
DOUBLE_QUOTE_REGEX ==
    Alt(<< Lit(<<"U+00AB">>), Lit(<<"U+2039">>), Lit(<<"U+00BB">>), Lit(<<"U+203A">>),
           Lit(<<"U+201E">>),
           Lit(<<",", " ", "\"", "U+201F", "\"", ",", " ">>),
           Lit(<<"U+275D">>), Lit(<<"U+275E">>), Lit(<<"U+276E">>), Lit(<<"U+276F">>),
           Lit(<<"U+301D">>), Lit(<<"U+301E">>), Lit(<<"U+301F">>), Lit(<<"U+FF02">>) >>)

SINGLE_QUOTE_REGEX ==
    Alt(<< Lit(<<"'">>), Lit(<<"U+201B">>), Lit(<<"'">>), Lit(<<"U+275B">>),
           Lit(<<"U+275C">>), Lit(<<"U+0060">>), Lit(<<"U+00B4">>), Lit(<<"'">>), Lit(<<"'">>) >>)

\* emoji.get_emoji_regexp(): the emoji of the alphabet used here.
Emoji == {"U+1F600", "U+1F602"}
EMOJI_HANDLER_REGEX == In(Emoji)

fix_quotes(text) ==
    re_sub(DOUBLE_QUOTE_REGEX, <<"\"">>, re_sub(SINGLE_QUOTE_REGEX, <<"'">>, text))

----------------------------------------------------------------------------
(* Unicode data, for the characters the model's inputs and tables use.     *)

\* Fullwidth forms and their ASCII counterparts.
FULLWIDTH ==
    << <<"U+FF01", <<"!">>>>, <<"U+FF02", <<"\"">>>>, <<"U+FF05", <<"%">>>>,
       <<"U+FF08", <<"(">>>>, <<"U+FF09", <<")">>>>, <<"U+FF0C", <<",">>>>,
       <<"U+FF10", <<"0">>>>, <<"U+FF11", <<"1">>>>, <<"U+FF12", <<"2">>>>,
       <<"U+FF13", <<"3">>>>, <<"U+FF14", <<"4">>>>, <<"U+FF15", <<"5">>>>,
       <<"U+FF16", <<"6">>>>, <<"U+FF17", <<"7">>>>, <<"U+FF18", <<"8">>>>,
       <<"U+FF19", <<"9">>>>, <<"U+FF1A", <<":">>>>, <<"U+FF1B", <<";">>>>,
       <<"U+FF1F", <<"?">>>>, <<"U+FF5E", <<"~">>>> >>

\* Canonical decompositions (Bengali letters with nukta, two-part vowels).
CANONICAL ==
    << <<"U+09DC", <<"U+09A1", "U+09BC">>>>, <<"U+09DD", <<"U+09A2", "U+09BC">>>>,
       <<"U+09DF", <<"U+09AF", "U+09BC">>>>,
       <<"U+09CB", <<"U+09C7", "U+09BE">>>>, <<"U+09CC", <<"U+09C7", "U+09D7">>>> >>

\* Compatibility decompositions.
COMPATIBILITY ==
    << <<"U+00A0", <<" ">>>>, <<"U+00B4", <<" ", "U+0301">>>>,
       <<"U+2026", <<".", ".", ".">>>>, <<"U+2474", <<"(", "1", ")">>>> >>

\* Canonical compositions: the pairs that compose, and what they compose to
\* (the letters with nukta are composition exclusions).
COMPOSITIONS ==
    << << <<"U+09C7", "U+09BE">>, <<"U+09CB">> >>,
       << <<"U+09C7", "U+09D7">>, <<"U+09CC">> >> >>

compose(m) == dict_get(COMPOSITIONS, m, m)

\* The decomposition of the form: canonical, or compatibility.
decompose(form, text) ==
    translate(text, IF form \in {"NFKC", "NFKD"}
                    THEN maketrans(CANONICAL \o COMPATIBILITY \o FULLWIDTH)
                    ELSE maketrans(CANONICAL))

\* The pairs that compose, as a pattern.
COMPOSITION_PAIRS == Alt([k \in DOMAIN COMPOSITIONS |-> Lit(COMPOSITIONS[k][1])])

\* The canonical composition of a decomposed text cut at its pairs.
recompose(pieces) ==
    Concat([k \in DOMAIN pieces |->
               IF pieces[k].m THEN compose(pieces[k].s) ELSE pieces[k].s])

\* unicodedata.normalize(form, text)
unicodedata_normalize(form, text) ==
    IF Done(<<text>>) /\ form \in {"NFC", "NFKC"}
    THEN recompose(re_pieces(COMPOSITION_PAIRS, decompose(form, text)))
    ELSE decompose(form, text)

\* ftfy.fix_text(text, normalization="NFC") on text that is not mojibake and
\* holds no HTML entity or control character: fix_character_width, then
\* uncurl_quotes, then NFC.
WIDTH_MAP == maketrans(FULLWIDTH)

QUOTE_MAP ==
    maketrans(<< <<"U+2018", <<"'">>>>, <<"U+2019", <<"'">>>>, <<"U+201A", <<"'">>>>,
                 <<"U+201B", <<"'">>>>, <<"U+201C", <<"\"">>>>, <<"U+201D", <<"\"">>>>,
                 <<"U+201E", <<"\"">>>>, <<"U+201F", <<"\"">>>> >>)

fix_text(text) ==
    unicodedata_normalize("NFC", translate(translate(text, WIDTH_MAP), QUOTE_MAP))

\* str.strip()
str_strip(text) ==
    LET keep == {i \in DOMAIN text : text[i] \notin Whitespace}
    IN  IF keep = {} THEN <<>>
        ELSE SubSeq(text, CHOOSE i \in keep : \A j \in keep : i <= j,
                          CHOOSE i \in keep : \A j \in keep : j <= i)

----------------------------------------------------------------------------
(* normalize and process_extracted_text (text_normalizer.py).              *)

\* if repl is not None: text = pattern.sub(repl, text)
sub_unless_none(pattern, repl, text) ==
    IF repl # None THEN re_sub(pattern, repl, text) ELSE text

\* if when: text = unicodedata.normalize(unicode_norm, text)
normalize_when(when, unicode_norm, text) ==
    IF when THEN unicodedata_normalize(unicode_norm, text) ELSE text

\* The statements of normalize, the first innermost: fix_text, fix_quotes,
\* the URL, punctuation and emoji replacements, translate, the early
\* normalization, the UNICODE_REPLACEMENTS substitution, the late
\* normalization, the whitespace collapse and strip.
normalize(text, unicode_norm, punct_replacement, url_replacement, emoji_replacement, apply_unicode_norm_last) ==
    str_strip(
     re_sub(WHITESPACE_HANDLER_REGEX, <<" ">>,
      normalize_when(apply_unicode_norm_last, unicode_norm,
       unicode_replacements_sub(
        normalize_when(~apply_unicode_norm_last, unicode_norm,
         translate(
          sub_unless_none(EMOJI_HANDLER_REGEX, emoji_replacement,
           sub_unless_none(PUNCT_HANDLER_REGEX, punct_replacement,
            sub_unless_none(URL_HANDLER_REGEX, url_replacement,
             fix_quotes(
              fix_text(text))))),
          CHAR_REPLACEMENTS))))))

\* normalize(text) with the defaults of its signature.
normalize_default(text) == normalize(text, "NFKC", <<" ">>, <<" ">>, <<" ">>, TRUE)

\* process_extracted_text joining detected_text, not filtered_list.
process_extracted_text_unfiltered(detected_text) ==
    normalize_default(str_join(<<" ">>, detected_text))

\* process_extracted_text with a filtered list that lives across calls: each
\* call adds its fragments to those retained by the requests before it.
process_extracted_text_accumulating(detected_text) ==
    normalize_default(
        str_join(<<" ">>,
                 Concat([i \in DOMAIN requests |->
                            IF requests[i].status = 200
                            THEN filter_noise_keywords(requests[i].extracted_text).cleaned_list
                            ELSE <<>>])
                 \o filter_noise_keywords(detected_text).cleaned_list))

\* process_extracted_text(detected_text): filter, join, normalize.
process_extracted_text(detected_text) ==
    normalize_default(str_join(<<" ">>, filter_noise_keywords(detected_text).cleaned_list))

----------------------------------------------------------------------------
(* predict (model.py).  The sigmoid output is a fixed-point number: prob   *)
(* stands for prob / ProbScale.                                            *)

ProbScale == 4

\* predict with prob >= 0.5 as its test.
predict_inclusive(text, prob) ==
    LET prediction == IF 2 * prob >= ProbScale THEN "Political" ELSE "NonPolitical"
        confidence == IF 2 * prob >= ProbScale THEN prob ELSE ProbScale - prob
    IN  [prediction |-> prediction,
         confidence |-> confidence,
         political_probability |-> prob,
         non_political_probability |-> ProbScale - prob]

\* predict(...): the decision rule applied to the model's output prob.
predict(text, prob) ==
    LET prediction == IF 2 * prob > ProbScale THEN "Political" ELSE "NonPolitical"
        confidence == IF 2 * prob > ProbScale THEN prob ELSE ProbScale - prob
    IN  [prediction |-> prediction,
         confidence |-> confidence,
         political_probability |-> prob,
         non_political_probability |-> ProbScale - prob]

----------------------------------------------------------------------------
(* GeminiTextExtractor (gemini_extractor.py).                              *)

\* Python values where a value of any type can stand: a list (of str), a
\* str, an int, a dict (its items, in order), and None (above).
PyList(items) == <<"list", items>>
PyStr(s) == <<"str", s>>
PyInt(n) == <<"int", n>>
PyDict(items) == <<"dict", items>>

isinstance(value, type) == value[1] = type

\* bool(value): what `not value` tests.
bool(value) ==
    CASE value[1] = "None" -> FALSE
      [] value[1] = "int"  -> value[2] # 0
      [] OTHER             -> Len(value[2]) > 0

\* key in d, and d[key], for a dict d.
dict_contains(d, key) == \E k \in DOMAIN d[2] : d[2][k][1] = key
dict_getitem(d, key) == d[2][CHOOSE k \in DOMAIN d[2] : d[2][k][1] = key][2]

\* What json.loads raises on text that is not JSON.
JSONDecodeError == <<"JSONDecodeError">>

\* A text Gemini answers with, described by what the two parsing calls make
\* of it: loads is json.loads(cleaned_text), a value or JSONDecodeError;
\* search is None when re.search finds no "detected_text": [...] in the
\* text, and else json.loads of the list it found, a value or
\* JSONDecodeError.
RawText(loads, search) == [loads |-> loads, search |-> search]

\* What the Gemini call does for an image: generate_content (or
\* response.text) raises, or gives a text.
Generated(raises, raw_text) == [raises |-> raises, raw_text |-> raw_text]

\* What a call does: it raises, or it returns a value; and the lines it
\* prints.
Returns(value, lines) == [raises |-> FALSE, returns |-> value, prints |-> lines]

\* GeminiTextExtractor._parse_response(raw_text)
_parse_response(raw_text) ==
    IF /\ raw_text.loads # JSONDecodeError
       /\ isinstance(raw_text.loads, "dict")
       /\ dict_contains(raw_text.loads, "detected_text")
    THEN Returns(dict_getitem(raw_text.loads, "detected_text"), <<>>)
    ELSE IF /\ raw_text.search # None
            /\ raw_text.search # JSONDecodeError
            /\ isinstance(raw_text.search, "list")
    THEN Returns(raw_text.search, <<>>)
    ELSE Returns(PyList(<<>>), <<"Could not parse Gemini response">>)

\* extract_text without its try: the exception of the Gemini call goes to
\* the caller.
extract_text_raising(image) ==
    IF image.generated.raises
    THEN [raises |-> TRUE, returns |-> None, prints |-> <<>>]
    ELSE _parse_response(image.generated.raw_text)

\* GeminiTextExtractor.extract_text(image): [] on any exception.
extract_text(image) ==
    IF image.generated.raises
    THEN Returns(PyList(<<>>), <<"Error extracting text with Gemini">>)
    ELSE _parse_response(image.generated.raw_text)

----------------------------------------------------------------------------
(* The server (main.py).                                                   *)

MaxRequests == 2

\* What a client can upload: the declared content type, whether the bytes
\* decode as an image, and what the Gemini call does for that image.
Upload(content_type, decodes, answer) ==
    [content_type |-> content_type, decodes |-> decodes, generated |-> answer]

\* An answer that is the JSON object asked for, and one that is no JSON and
\* holds no list.
Answer(value) ==
    Generated(FALSE, RawText(PyDict(<< <<"detected_text", value>> >>), None))
Unparsable == Generated(FALSE, RawText(JSONDecodeError, None))

Uploads ==
    { Upload("text/plain", TRUE, Unparsable),
      Upload("image/png", FALSE, Unparsable),
      Upload("image/png", TRUE, Generated(TRUE, None)),
      Upload("image/png", TRUE, Unparsable),
      Upload("image/jpeg", TRUE, Answer(PyList(<<Str("bangla troll funny politics")>>))),
      Upload("image/png", TRUE, Answer(PyStr(Str("Follow us")))),
      Upload("image/png", TRUE,
             Generated(FALSE, RawText(JSONDecodeError,
                                      PyList(<<Str("Follow us"), Str("vote for change")>>)))),
      Upload("image/png", TRUE, Answer(PyList(<<Str("[no text detected]")>>))) }

PLACEHOLDER == Str("[no text detected]")

\* lifespan without its two checks: it yields with nothing loaded when the
\* key or the model file is missing.
lifespan_unchecked ==
    /\ app = "starting"
    /\ IF GEMINI_API_KEY \in {None, <<>>} \/ ~model_file
       THEN /\ app' = "serving"
            /\ UNCHANGED <<gemini_extractor, pixai_model, tokenizer, clip_preprocess>>
       ELSE /\ gemini_extractor' = <<"GeminiTextExtractor", GEMINI_API_KEY>>
            /\ pixai_model' = <<"PIXAI">>
            /\ tokenizer' = <<"AutoTokenizer">>
            /\ clip_preprocess' = <<"preprocess">>
            /\ app' = "serving"
    /\ UNCHANGED <<tables, extraction, stages, GEMINI_API_KEY, model_file, requests, response, health,
                   text_list, canon>>

\* lifespan: start-up of the application.
lifespan ==
    /\ app = "starting"
    /\ IF GEMINI_API_KEY \in {None, <<>>} \/ ~model_file
       THEN /\ app' = "failed"                      \* RuntimeError
            /\ UNCHANGED <<gemini_extractor, pixai_model, tokenizer, clip_preprocess>>
       ELSE /\ gemini_extractor' = <<"GeminiTextExtractor", GEMINI_API_KEY>>
            /\ pixai_model' = <<"PIXAI">>
            /\ tokenizer' = <<"AutoTokenizer">>
            /\ clip_preprocess' = <<"preprocess">>
            /\ app' = "serving"
    /\ UNCHANGED <<tables, extraction, stages, GEMINI_API_KEY, model_file, requests, response, health,
                   text_list, canon>>

\* GET /health
health_check ==
    /\ app = "serving"
    /\ health' = <<[status |-> "healthy", model_loaded |-> pixai_model # None]>>
    /\ UNCHANGED <<tables, extraction, stages, GEMINI_API_KEY, model_file, gemini_extractor, pixai_model,
                   tokenizer, clip_preprocess, app, requests, response, text_list, canon>>

\* The assignment of normalized_text without its test.
normalized_text_unguarded(canonical) == canonical

\* if not normalized_text.strip(): normalized_text = "[no text detected]"
normalized_text(canonical) ==
    IF str_strip(canonical) = <<>> THEN PLACEHOLDER ELSE canonical

\* What the handler holds when it calls predict.
classified(extracted_text, canonical) ==
    [status |-> 200, extracted_text |-> extracted_text,
     canonical |-> canonical, text |-> normalized_text(canonical)]

\* extracted_text after `if not extracted_text: extracted_text = []`, for a
\* list.
or_empty(value) == IF bool(value) THEN value[2] ELSE <<>>

\* predict_meme up to the call of predict: the steps taken for one upload, or
\* the HTTPException raised before classification.  A value of extract_text
\* that is not a list and not falsy ends in an exception (of
\* process_extracted_text for an int, of PredictionResponse for a str or a
\* dict), which the handler turns into the 500.  The handler's extracted_text
\* is the list object that process_extracted_text hands to
\* filter_noise_keywords: it is read again, for the response, after that call.
prepare(file) ==
    IF SubSeq(file.content_type, 1, 6) # "image/"
    THEN [status |-> 400, detail |-> "Uploaded file must be an image"]
    ELSE IF ~file.decodes                    \* Image.open raises
    THEN [status |-> 500, detail |-> "Internal server error"]
    ELSE IF extract_text(file).raises
    THEN [status |-> 500, detail |-> "Internal server error"]
    ELSE IF bool(extract_text(file).returns) /\ ~isinstance(extract_text(file).returns, "list")
    THEN [status |-> 500, detail |-> "Internal server error"]
    ELSE classified(filter_noise_keywords(or_empty(extract_text(file).returns)).text_list,
                    process_extracted_text(or_empty(extract_text(file).returns)))

\* The response of predict_meme: PredictionResponse, or the error.
respond(prepared, prob) ==
    IF prepared.status # 200 THEN prepared
    ELSE LET result == predict(prepared.text, prob)
         IN  [status |-> 200,
              success |-> TRUE,
              prediction |-> result.prediction,
              confidence |-> result.confidence,
              political_probability |-> result.political_probability,
              non_political_probability |-> result.non_political_probability,
              extracted_text |-> prepared.extracted_text,
              normalized_text |-> prepared.text,
              message |-> "Prediction completed successfully"]

\* POST /predict: one request, handled from start to end.  requests records
\* what the handler passed to process_extracted_text and to predict.
predict_meme ==
    /\ app = "serving"
    /\ Len(requests) < MaxRequests
    /\ \E file \in Uploads : requests' = Append(requests, [file |-> file] @@ prepare(file))
    /\ \E prob \in 0..ProbScale : response' = <<respond(requests'[Len(requests')], prob)>>
    /\ UNCHANGED <<tables, extraction, stages, GEMINI_API_KEY, model_file, gemini_extractor, pixai_model,
                   tokenizer, clip_preprocess, app, health, text_list, canon>>

Init ==
    /\ NOISE_KEYWORDS = NOISE_KEYWORDS_LIST
    /\ CHAR_REPLACEMENTS = maketrans(CHAR_REPLACEMENTS_ITEMS)
    /\ UNICODE_REPLACEMENTS = UNICODE_REPLACEMENTS_ITEMS
    /\ GEMINI_API_KEY \in {None, <<>>, Str("key")}
    /\ model_file \in BOOLEAN
    /\ gemini_extractor = None
    /\ pixai_model = None
    /\ tokenizer = None
    /\ clip_preprocess = None
    /\ app = "starting"
    /\ requests = <<>>
    /\ response = <<>>
    /\ health = <<>>
    /\ text_list = <<>>
    /\ canon = None
    /\ generated = None
    /\ extracted = <<>>
    /\ printed = <<>>
    /\ call = None
    /\ pc = "idle"
    /\ local_text = None
    /\ normalized = 0

Next == lifespan \/ health_check \/ predict_meme

Spec == Init /\ [][Next]_vars

----------------------------------------------------------------------------
(* The canonicalizer on its own: one call of process_extracted_text on a   *)
(* list of fragments.                                                      *)

MaxFrags == 2

Fragments ==
    { Str("Follow us"),
      Str("Great meme today"),
      Str("Check this out https://example.com/page now"),
      Str("bangla troll funny politics"),
      Str("hello world"),
      Str("fOL lo W"),
      <<"F", "o", "l", "\t", "l", "o", "w">>,
      <<"F", "o", "l", "\n", "l", "o", "w">>,
      <<"F", "o", "l", "U+00A0", "l", "o", "w">>,
      <<>>,
      <<"a", " ", "U+09F7", " ", "b">>,
      Str("so true!"),
      Str("Follow x.com") }

FragLists == UNION {[1..n -> Fragments] : n \in 0..MaxFrags}

InitCanon ==
    /\ NOISE_KEYWORDS = NOISE_KEYWORDS_LIST
    /\ CHAR_REPLACEMENTS = maketrans(CHAR_REPLACEMENTS_ITEMS)
    /\ UNICODE_REPLACEMENTS = UNICODE_REPLACEMENTS_ITEMS
    /\ GEMINI_API_KEY = Str("key")
    /\ model_file = TRUE
    /\ gemini_extractor = None
    /\ pixai_model = None
    /\ tokenizer = None
    /\ clip_preprocess = None
    /\ app = "starting"
    /\ requests = <<>>
    /\ response = <<>>
    /\ health = <<>>
    /\ text_list \in FragLists
    /\ canon = None
    /\ generated = None
    /\ extracted = <<>>
    /\ printed = <<>>
    /\ call = None
    /\ pc = "idle"
    /\ local_text = None
    /\ normalized = 0

Canonicalize ==
    /\ canon = None
    /\ canon' = process_extracted_text(text_list)
    /\ UNCHANGED <<tables, extraction, stages, GEMINI_API_KEY, model_file, gemini_extractor, pixai_model,
                   tokenizer, clip_preprocess, app, requests, response, health, text_list>>

NextCanon == Canonicalize

SpecCanon == InitCanon /\ [][NextCanon]_vars


----------------------------------------------------------------------------
(* The extractor on its own: one call of extract_text.                     *)

\* The lists an answer can hold, and the values that can stand under its
\* "detected_text" key.
AnswerFragments == {Str("hello world"), Str("Follow us"), Str("vote")}
AnswerLists == UNION {[1..n -> AnswerFragments] : n \in 0..2}
AnswerValues ==
    {PyList(l) : l \in AnswerLists}
        \cup {PyStr(Str("Follow us")), None, PyInt(5), PyDict(<<>>)}

\* json.loads of a text without a top-level "detected_text" key: no JSON, an
\* object with another key, a list, a string.
KeylessLoads ==
    { JSONDecodeError,
      PyDict(<< <<"text", PyStr(Str("hello world"))>> >>),
      PyList(<<Str("hello world")>>),
      PyStr(Str("hello world")) }

\* The texts: the object asked for, with any value, or a text without the
\* top-level key in which the pattern finds nothing, a list that is no JSON,
\* or a list.
RawTexts ==
    {RawText(PyDict(<< <<"detected_text", v>> >>),
             IF isinstance(v, "list") THEN v ELSE None) : v \in AnswerValues}
        \cup {RawText(l, s) : l \in KeylessLoads,
                              s \in {None, JSONDecodeError}
                                        \cup {PyList(m) : m \in AnswerLists}}

InitExtract ==
    /\ NOISE_KEYWORDS = NOISE_KEYWORDS_LIST
    /\ CHAR_REPLACEMENTS = maketrans(CHAR_REPLACEMENTS_ITEMS)
    /\ UNICODE_REPLACEMENTS = UNICODE_REPLACEMENTS_ITEMS
    /\ GEMINI_API_KEY = Str("key")
    /\ model_file = TRUE
    /\ gemini_extractor = <<"GeminiTextExtractor", GEMINI_API_KEY>>
    /\ pixai_model = None
    /\ tokenizer = None
    /\ clip_preprocess = None
    /\ app = "starting"
    /\ requests = <<>>
    /\ response = <<>>
    /\ health = <<>>
    /\ text_list = <<>>
    /\ canon = None
    /\ generated \in {Generated(TRUE, None)} \cup {Generated(FALSE, t) : t \in RawTexts}
    /\ extracted = <<>>
    /\ printed = <<>>
    /\ call = None
    /\ pc = "idle"
    /\ local_text = None
    /\ normalized = 0

\* One call of extract_text, from start to end: the value it returns (or
\* the mark that it raised) and what it printed.
ExtractText ==
    /\ extracted = <<>>
    /\ extracted' = <<extract_text([generated |-> generated])>>
    /\ printed' = extracted'[1].prints
    /\ UNCHANGED <<tables, stages, GEMINI_API_KEY, model_file, gemini_extractor,
                   pixai_model, tokenizer, clip_preprocess, app, requests, response,
                   health, text_list, canon, generated>>

NextExtract == ExtractText

SpecExtract == InitExtract /\ [][NextExtract]_vars

----------------------------------------------------------------------------
(* normalize statement by statement: pc names the statement that is next,  *)
(* local_text is the function's variable text.                             *)

MaxPieces == 2

\* Pieces of text on which the stages differ: a word, a compatibility
\* character and punctuation; a URL; a curly quote, an emoji, the sequence of
\* the group pattern and spaces.
NormalizedPieces ==
    { <<"a", "U+2474", "!">>,
      Str("http://a.io"),
      <<"U+201C", "U+1F600", "U+09C7", "U+0995", "U+09D7", " ", " ">> }

NormalizedTexts ==
    {Concat(ps) : ps \in UNION {[1..n -> NormalizedPieces] : n \in 0..MaxPieces}}

\* The calls: a text, the three replacements at their default or None, and
\* either value of apply_unicode_norm_last.
NormalizeCalls ==
    {[text |-> t, unicode_norm |-> "NFKC", punct_replacement |-> r,
      url_replacement |-> r, emoji_replacement |-> r, apply_unicode_norm_last |-> b] :
        t \in NormalizedTexts, r \in {<<" ">>, None}, b \in BOOLEAN}

InitNormalize ==
    /\ NOISE_KEYWORDS = NOISE_KEYWORDS_LIST
    /\ CHAR_REPLACEMENTS = maketrans(CHAR_REPLACEMENTS_ITEMS)
    /\ UNICODE_REPLACEMENTS = UNICODE_REPLACEMENTS_ITEMS
    /\ GEMINI_API_KEY = None
    /\ model_file = TRUE
    /\ gemini_extractor = None
    /\ pixai_model = None
    /\ tokenizer = None
    /\ clip_preprocess = None
    /\ app = "starting"
    /\ requests = <<>>
    /\ response = <<>>
    /\ health = <<>>
    /\ text_list = <<>>
    /\ canon = None
    /\ generated = None
    /\ extracted = <<>>
    /\ printed = <<>>
    /\ call \in NormalizeCalls
    /\ pc = "fix_text"
    /\ local_text = call.text
    /\ normalized = 0

\* What no statement of normalize writes.
outside_normalize ==
    <<tables, extraction, call, GEMINI_API_KEY, model_file, gemini_extractor,
      pixai_model, tokenizer, clip_preprocess, app, requests, response, health,
      text_list, canon>>

\* text = fix_text(text, normalization="NFC", explain=False)
FixText ==
    /\ pc = "fix_text"
    /\ local_text' = fix_text(local_text)
    /\ pc' = "fix_quotes"
    /\ UNCHANGED <<outside_normalize, normalized>>

\* text = fix_quotes(text)
FixQuotes ==
    /\ pc = "fix_quotes"
    /\ local_text' = fix_quotes(local_text)
    /\ pc' = "url"
    /\ UNCHANGED <<outside_normalize, normalized>>

\* if url_replacement is not None: text = URL_HANDLER_REGEX.sub(...)
ReplaceUrls ==
    /\ pc = "url"
    /\ local_text' = IF call.url_replacement # None
                     THEN re_sub(URL_HANDLER_REGEX, call.url_replacement, local_text)
                     ELSE local_text
    /\ pc' = "punct"
    /\ UNCHANGED <<outside_normalize, normalized>>

\* if punct_replacement is not None: text = PUNCT_HANDLER_REGEX.sub(...)
ReplacePunctuation ==
    /\ pc = "punct"
    /\ local_text' = IF call.punct_replacement # None
                     THEN re_sub(PUNCT_HANDLER_REGEX, call.punct_replacement, local_text)
                     ELSE local_text
    /\ pc' = "emoji"
    /\ UNCHANGED <<outside_normalize, normalized>>

\* if emoji_replacement is not None: text = EMOJI_HANDLER_REGEX.sub(...)
ReplaceEmojis ==
    /\ pc = "emoji"
    /\ local_text' = IF call.emoji_replacement # None
                     THEN re_sub(EMOJI_HANDLER_REGEX, call.emoji_replacement, local_text)
                     ELSE local_text
    /\ pc' = "translate"
    /\ UNCHANGED <<outside_normalize, normalized>>

\* text = text.translate(CHAR_REPLACEMENTS)
TranslateChars ==
    /\ pc = "translate"
    /\ local_text' = translate(local_text, CHAR_REPLACEMENTS)
    /\ pc' = "norm_first"
    /\ UNCHANGED <<outside_normalize, normalized>>

\* The first normalization without its test: applied on every call.
NormalizeFirst_always ==
    /\ pc = "norm_first"
    /\ local_text' = unicodedata_normalize(call.unicode_norm, local_text)
    /\ normalized' = normalized + 1
    /\ pc' = "replacements"
    /\ UNCHANGED outside_normalize

\* if not apply_unicode_norm_last: text = unicodedata.normalize(unicode_norm, text)
NormalizeFirst ==
    /\ pc = "norm_first"
    /\ IF ~call.apply_unicode_norm_last
       THEN /\ local_text' = unicodedata_normalize(call.unicode_norm, local_text)
            /\ normalized' = normalized + 1
       ELSE UNCHANGED <<local_text, normalized>>
    /\ pc' = "replacements"
    /\ UNCHANGED outside_normalize

\* text = UNICODE_REPLACEMENTS_REGEX.sub(lambda match: ..., text)
UnicodeReplacements ==
    /\ pc = "replacements"
    /\ local_text' = unicode_replacements_sub(local_text)
    /\ pc' = "norm_last"
    /\ UNCHANGED <<outside_normalize, normalized>>

\* if apply_unicode_norm_last: text = unicodedata.normalize(unicode_norm, text)
NormalizeLast ==
    /\ pc = "norm_last"
    /\ IF call.apply_unicode_norm_last
       THEN /\ local_text' = unicodedata_normalize(call.unicode_norm, local_text)
            /\ normalized' = normalized + 1
       ELSE UNCHANGED <<local_text, normalized>>
    /\ pc' = "whitespace"
    /\ UNCHANGED outside_normalize

\* text = WHITESPACE_HANDLER_REGEX.sub(" ", text)
CollapseWhitespace ==
    /\ pc = "whitespace"
    /\ local_text' = re_sub(WHITESPACE_HANDLER_REGEX, <<" ">>, local_text)
    /\ pc' = "return"
    /\ UNCHANGED <<outside_normalize, normalized>>

\* return text.strip()
ReturnStripped ==
    /\ pc = "return"
    /\ local_text' = str_strip(local_text)
    /\ pc' = "done"
    /\ UNCHANGED <<outside_normalize, normalized>>

NextNormalize ==
    \/ FixText
    \/ FixQuotes
    \/ ReplaceUrls
    \/ ReplacePunctuation
    \/ ReplaceEmojis
    \/ TranslateChars
    \/ NormalizeFirst
    \/ UnicodeReplacements
    \/ NormalizeLast
    \/ CollapseWhitespace
    \/ ReturnStripped

SpecNormalize == InitNormalize /\ [][NextNormalize]_vars

----------------------------------------------------------------------------
(* The multi-character pass on its own: normalize's statement of the pass, *)
(* reached with a short text.                                              *)

MaxText == 3

\* Characters of keys that overlap, the parts of the group pattern, and a
\* consonant that is part of no key.
ReplacedChars ==
    {"U+00A0", "U+00AB", "U+00B4", "U+09C7", "U+09D7", "U+0981", "U+09BE", "U+0995"}

ReplacedTexts == UNION {[1..n -> ReplacedChars] : n \in 0..MaxText}

InitReplace ==
    /\ NOISE_KEYWORDS = NOISE_KEYWORDS_LIST
    /\ CHAR_REPLACEMENTS = maketrans(CHAR_REPLACEMENTS_ITEMS)
    /\ UNICODE_REPLACEMENTS = UNICODE_REPLACEMENTS_ITEMS
    /\ GEMINI_API_KEY = None
    /\ model_file = TRUE
    /\ gemini_extractor = None
    /\ pixai_model = None
    /\ tokenizer = None
    /\ clip_preprocess = None
    /\ app = "starting"
    /\ requests = <<>>
    /\ response = <<>>
    /\ health = <<>>
    /\ text_list = <<>>
    /\ canon = None
    /\ generated = None
    /\ extracted = <<>>
    /\ printed = <<>>
    /\ call \in ReplacedTexts
    /\ pc = "replacements"
    /\ local_text = call
    /\ normalized = 0

\* The one step of this specification is UnicodeReplacements, the statement
\* of the pass; the call is over when pc names the statement after it.
NextReplace == UnicodeReplacements

SpecReplace == InitReplace /\ [][NextReplace]_vars

----------------------------------------------------------------------------
(* Properties of the canonicalizer (specification SpecCanon).              *)

\* The lowercased form of a text with its spaces (U+0020) removed.
Folded(text) == SelectSeq([i \in DOMAIN text |-> LowerChar(text[i])], LAMBDA c : c # " ")

\* Membership of a keyword in a fragment, both folded.
Matches(fragment) ==
    \E j \in DOMAIN NOISE_KEYWORDS_LIST :
        LET kw == Folded(NOISE_KEYWORDS_LIST[j])
            f  == Folded(fragment)
        IN  \E i \in 0..(Len(f) - Len(kw)) : SubSeq(f, i + 1, i + Len(kw)) = kw

\* The fragments of the call that match no keyword, in their order.
NonMatching == SelectSeq(text_list, LAMBDA f : ~Matches(f))

Returned == canon # None

\* C1: for every fragment list, the retained list is exactly the subsequence
\* of the fragments whose folded form contains no folded noise keyword (each
\* unchanged, in the original order), and the corpus that is normalized is
\* the join of that list: no matching fragment is part of it.
C1_RetainedIsNonMatchingSubsequence ==
    Returned =>
        /\ filter_noise_keywords(text_list).cleaned_list = NonMatching
        /\ canon = normalize_default(str_join(<<" ">>, NonMatching))

\* C1 witness: a call on two fragments, the first dropped and the second
\* retained, has returned.
C1_Witness ==
    /\ Returned
    /\ Len(text_list) = 2
    /\ Matches(text_list[1]) /\ ~Matches(text_list[2])
    /\ canon = Str("hello world")

FollowGreat == <<Str("Follow us"), Str("Great meme today")>>

\* C2: for ["Follow us", "Great meme today"] both fragments are dropped
\* ("Follow us" holds the keyword "Follow", "Great meme today" holds the
\* keyword "MEME"), so nothing is retained and the result is the empty string.
C2_BothFragmentsDropped ==
    (Returned /\ text_list = FollowGreat) =>
        /\ Matches(Str("Follow us")) /\ Matches(Str("Great meme today"))
        /\ filter_noise_keywords(text_list).cleaned_list = <<>>
        /\ canon = <<>>

C2_Witness == Returned /\ text_list = FollowGreat /\ canon = <<>>

\* C2 as stated: the result for that list is "Great meme today".
C2_AsStated ==
    (Returned /\ text_list = FollowGreat) => canon = Str("Great meme today")

CheckThisOut == Str("Check this out https://example.com/page now")

\* C3: the fragment "Check this out https://example.com/page now" holds the
\* noise keyword ".com", so as the single fragment of a list it is dropped and
\* the result is the empty string; normalize applied to the text itself
\* replaces the URL by a space and gives "Check this out now".
C3_UrlFragmentDropped ==
    (Returned /\ text_list = <<CheckThisOut>>) =>
        /\ canon = <<>>
        /\ normalize_default(CheckThisOut) = Str("Check this out now")

C3_Witness == Returned /\ text_list = <<CheckThisOut>> /\ canon = <<>>

\* C3 as stated: the result for that fragment is "Check this out now".
C3_AsStated ==
    (Returned /\ text_list = <<CheckThisOut>>) => canon = Str("Check this out now")

\* A keyword with characters between its letters: U+0020, tab, newline,
\* no-break space.
FolloW_Spaces == Str("fOL lo W")
Follow_Tab    == <<"F", "o", "l", "\t", "l", "o", "w">>
Follow_Newline == <<"F", "o", "l", "\n", "l", "o", "w">>
Follow_Nbsp   == <<"F", "o", "l", "U+00A0", "l", "o", "w">>

C6_NothingRetainedGivesEmpty ==
    (Returned /\ \A k \in DOMAIN text_list : Matches(text_list[k])) => canon = <<>>

\* C6 witness: a call on two fragments that both match has returned "".
C6_Witness ==
    /\ Returned
    /\ Len(text_list) = 2
    /\ \A k \in DOMAIN text_list : Matches(text_list[k])
    /\ canon = <<>>

\* C10 as stated: the string normalize returns holds no punctuation character.
C10_AsStated ==
    Returned => \A i \in DOMAIN canon : canon[i] \notin Punct

----------------------------------------------------------------------------
(* Properties of the server (specification Spec).                          *)

\* The requests that reached classification (predict was called).
Classified == {i \in DOMAIN requests : requests[i].status = 200}

BanglaTroll == Str("bangla troll funny politics")

\* The requests whose image yielded the one fragment "bangla troll funny
\* politics".
BanglaTrollRequests == {i \in Classified : requests[i].extracted_text = <<BanglaTroll>>}

\* C4: "bangla troll funny politics" holds the noise keyword "BANGLA TROLL", so
\* as a fragment it is dropped: the canonical text is empty, the classifier
\* receives the placeholder "[no text detected]", and the response's label
\* follows the 0.5 threshold rule.
C4_BanglaTrollIsDropped ==
    /\ \A i \in BanglaTrollRequests :
          /\ requests[i].canonical = <<>>
          /\ requests[i].text = Str("[no text detected]")
    /\ Len(requests) \in BanglaTrollRequests =>
          /\ response[1].normalized_text = Str("[no text detected]")
          /\ response[1].political_probability \in 0..ProbScale
          /\ response[1].prediction =
                IF 2 * response[1].political_probability > ProbScale
                THEN "Political" ELSE "NonPolitical"

\* C4 witness: such a request was answered "Political".
C4_Witness ==
    /\ Len(requests) \in BanglaTrollRequests
    /\ requests[Len(requests)].text = Str("[no text detected]")
    /\ response[1].prediction = "Political"

\* C4 as stated: the classifier receives "bangla troll funny politics".
C4_AsStated ==
    \A i \in BanglaTrollRequests : requests[i].text = BanglaTroll

\* C7: predict is always called with a text that is not empty and not only
\* whitespace: when process_extracted_text returned "" the handler passes
\* "[no text detected]", otherwise it passes what was returned; and
\* process_extracted_text never returns "[no text detected]" itself.
C7_PredictGetsNonEmptyText ==
    \A i \in Classified :
        /\ requests[i].text # <<>>
        /\ \E k \in DOMAIN requests[i].text : requests[i].text[k] \notin Whitespace
        /\ requests[i].canonical = <<>> => requests[i].text = Str("[no text detected]")
        /\ requests[i].canonical # <<>> => requests[i].text = requests[i].canonical
        /\ requests[i].canonical # Str("[no text detected]")

\* C7 witness: a request whose canonical text was empty reached predict with
\* the placeholder.
C7_Witness ==
    \E i \in Classified :
        /\ requests[i].extracted_text # <<>>
        /\ requests[i].canonical = <<>>
        /\ requests[i].text = Str("[no text detected]")

\* C8: for every probability p, the label is "Political" iff p > 0.5 (p = 0.5
\* gives "NonPolitical"), confidence is p if p > 0.5 and 1 - p otherwise and
\* lies in [0.5, 1], political_probability is p, non_political_probability is
\* 1 - p, and the confidence is the probability of the predicted class.
\* (Probabilities are in units of 1 / ProbScale.)
C8_ThresholdRule ==
    (response # <<>> /\ response[1].status = 200) =>
        LET r == response[1]
            p == r.political_probability
        IN  /\ p \in 0..ProbScale
            /\ (r.prediction = "Political") <=> (2 * p > ProbScale)
            /\ r.prediction \in {"Political", "NonPolitical"}
            /\ r.confidence = IF 2 * p > ProbScale THEN p ELSE ProbScale - p
            /\ ProbScale <= 2 * r.confidence /\ r.confidence <= ProbScale
            /\ r.non_political_probability = ProbScale - p
            /\ r.political_probability + r.non_political_probability = ProbScale
            /\ r.confidence = IF r.prediction = "Political"
                              THEN r.political_probability
                              ELSE r.non_political_probability

\* C8 witness: a response for p = 0.5 exactly, labelled "NonPolitical".
C8_Witness ==
    /\ response # <<>>
    /\ response[1].status = 200
    /\ 2 * response[1].political_probability = ProbScale
    /\ response[1].prediction = "NonPolitical"
    /\ 2 * response[1].confidence = ProbScale

BadUploads ==
    {i \in DOMAIN requests :
        \/ SubSeq(requests[i].file.content_type, 1, 6) # "image/"
        \/ ~requests[i].file.decodes}

\* C11 as stated: an upload that is not an image, or that cannot be decoded
\* as one, is answered with HTTP 400 and no prediction, before the extractor
\* or the classifier is called.
C11_AsStated ==
    \A i \in BadUploads :
        /\ requests[i].status = 400
        /\ "extracted_text" \notin DOMAIN requests[i]
        /\ "text" \notin DOMAIN requests[i]

----------------------------------------------------------------------------
(* Properties of the extractor (specification SpecExtract).                *)

ExtractReturned == extracted # <<>>

Extracted == extracted[1]

\* C12 as stated: extract_text never raises, and every value it returns is a
\* list (of fragments).
C12_AsStated ==
    ExtractReturned => (~Extracted.raises /\ isinstance(Extracted.returns, "list"))

----------------------------------------------------------------------------
(* Properties of the server, continued (specification Spec).               *)

\* The upload is an image that decodes, and the OCR fails for it: the Gemini
\* call raises, or its answer is parsed neither as JSON nor by the pattern.
OcrFails(file) ==
    /\ SubSeq(file.content_type, 1, 6) = "image/"
    /\ file.decodes
    /\ \/ file.generated.raises
       \/ /\ file.generated.raw_text.loads = JSONDecodeError
          /\ file.generated.raw_text.search \in {None, JSONDecodeError}

\* C13: a request with a valid image for which the OCR fails is classified
\* all the same: extract_text gives [], process_extracted_text gives "",
\* predict gets the placeholder, and the response is the complete success
\* response, with extracted_text = [].
C13_OcrFailureDegrades ==
    /\ \A i \in DOMAIN requests :
          OcrFails(requests[i].file) =>
              /\ requests[i].status = 200
              /\ requests[i].extracted_text = <<>>
              /\ requests[i].canonical = <<>>
              /\ requests[i].text = PLACEHOLDER
    /\ (requests # <<>> /\ OcrFails(requests[Len(requests)].file)) =>
          /\ response[1].status = 200
          /\ response[1].success
          /\ response[1].extracted_text = <<>>
          /\ response[1].normalized_text = PLACEHOLDER
          /\ response[1].prediction \in {"Political", "NonPolitical"}
          /\ response[1].confidence \in 0..ProbScale
          /\ response[1].political_probability + response[1].non_political_probability
                = ProbScale
          /\ response[1].message = "Prediction completed successfully"

\* C13 witness: a request for which the Gemini call raised and one for which
\* the answer was unparsable were both answered with the success response.
C13_Witness ==
    /\ Len(requests) = 2
    /\ requests[1].file.generated.raises /\ OcrFails(requests[1].file)
    /\ ~requests[2].file.generated.raises /\ OcrFails(requests[2].file)
    /\ requests[1].status = 200
    /\ response[1].status = 200 /\ response[1].success
    /\ response[1].extracted_text = <<>>


\* C14: no request is handled before start-up has finished, and start-up
\* finishes only with everything loaded: whenever a request has been handled
\* (and so whenever predict was called) the application is serving and the
\* extractor, the model, the tokenizer and the preprocessor are not None;
\* the application serves only if GEMINI_API_KEY is set and the model file
\* exists; and a start-up that failed has loaded nothing and serves nothing.
C14_NoRequestBeforeLoad ==
    /\ requests # <<>> => app = "serving"
    /\ app = "serving" =>
          /\ GEMINI_API_KEY \notin {None, <<>>} /\ model_file
          /\ gemini_extractor # None /\ pixai_model # None
          /\ tokenizer # None /\ clip_preprocess # None
    /\ app = "failed" =>
          /\ GEMINI_API_KEY \in {None, <<>>} \/ ~model_file
          /\ requests = <<>> /\ response = <<>> /\ health = <<>>
          /\ gemini_extractor = None /\ pixai_model = None
          /\ tokenizer = None /\ clip_preprocess = None
    /\ app = "starting" => requests = <<>> /\ pixai_model = None

\* C14 witness: predict was called, with the model loaded.
C14_Witness ==
    /\ Classified # {}
    /\ app = "serving"
    /\ pixai_model # None /\ tokenizer # None /\ clip_preprocess # None


\* C15: shared state is written at start-up only.  The normalizer tables
\* never change; the handles change in no step taken once start-up is over,
\* whatever requests are handled and in whatever order; and a call of
\* process_extracted_text leaves the list it is given as it was: the
\* extracted_text a request holds after the call is what extract_text
\* returned for it.
C15_SharedStateWrittenAtStartupOnly ==
    /\ [][UNCHANGED <<NOISE_KEYWORDS, CHAR_REPLACEMENTS, UNICODE_REPLACEMENTS>>]_vars
    /\ [][app # "starting" =>
            UNCHANGED <<gemini_extractor, pixai_model, tokenizer, clip_preprocess>>]_vars
    /\ [](\A i \in Classified :
            requests[i].extracted_text = or_empty(extract_text(requests[i].file).returns))

\* C15 witness: two requests, one of them with a fragment that was dropped,
\* and a health check were handled, with the handles as start-up left them.
C15_Witness ==
    /\ app = "serving"
    /\ health # <<>>
    /\ Len(requests) = 2
    /\ Classified = {1, 2}
    /\ Len(requests[1].extracted_text) = 2 /\ requests[1].canonical = Str("vote for change")
    /\ pixai_model = <<"PIXAI">> /\ gemini_extractor = <<"GeminiTextExtractor", GEMINI_API_KEY>>
    /\ NOISE_KEYWORDS = NOISE_KEYWORDS_LIST


----------------------------------------------------------------------------
(* Properties of the multi-character pass (specification SpecReplace).     *)

\* The keys of which another key is a proper prefix, so that both can match
\* at one position.
IsProperPrefix(short, long) ==
    Len(short) < Len(long) /\ SubSeq(long, 1, Len(short)) = short

OverlappedKeys ==
    {j \in DOMAIN UNICODE_REPLACEMENTS_ITEMS :
        \E k \in DOMAIN UNICODE_REPLACEMENTS_ITEMS :
            IsProperPrefix(UNICODE_REPLACEMENTS_ITEMS[k][1], UNICODE_REPLACEMENTS_ITEMS[j][1])}

\* C16, as the specification states it: where a key and a longer key that
\* starts with it both match, the longer key is tried first, so a text that
\* is such a longer key is replaced by that key's replacement.
C16_AsStated ==
    pc = "norm_last" =>
        \A j \in OverlappedKeys :
            call = UNICODE_REPLACEMENTS_ITEMS[j][1] =>
                local_text = UNICODE_REPLACEMENTS_ITEMS[j][2]


\* The folded keywords, and the positions in NOISE_KEYWORDS of those that
\* are part of the fragment's folded form.
FoldedKeywords == [j \in DOMAIN NOISE_KEYWORDS_LIST |-> Folded(NOISE_KEYWORDS_LIST[j])]

Contains(hay, needle) ==
    \E i \in 0..(Len(hay) - Len(needle)) : SubSeq(hay, i + 1, i + Len(needle)) = needle

MatchingKeywords(fragment) ==
    LET folded == Folded(fragment)
    IN  {j \in DOMAIN FoldedKeywords : Contains(folded, FoldedKeywords[j])}

\* The first keyword, in the order of NOISE_KEYWORDS, whose folded form is
\* part of the fragment's folded form.
FirstMatching(fragment) ==
    LET found == MatchingKeywords(fragment)
    IN  NOISE_KEYWORDS_LIST[CHOOSE j \in found : \A k \in 1..(j - 1) : k \notin found]

\* The dropped fragments of the call, by position, and the keyword each is
\* credited to.
Credits ==
    [i \in {k \in DOMAIN text_list : MatchingKeywords(text_list[k]) # {}} |->
        FirstMatching(text_list[i])]

\* C17: every matching fragment is dropped once and counted once, for the
\* first keyword in NOISE_KEYWORDS order that its folded form contains: the
\* count of each keyword is the number of fragments credited to it, the
\* retained fragments and the counts add up to the length of the input, and
\* a list without matching fragments has empty counts.
C17_OneCreditPerDroppedFragment ==
    Returned =>
        LET result  == filter_noise_keywords(text_list)
            credits == Credits
        IN  /\ Len(result.cleaned_list) + BagCardinality(result.keyword_counts)
                  = Len(text_list)
            /\ \A w \in Range(credits) \cup BagToSet(result.keyword_counts) :
                  CopiesIn(w, result.keyword_counts)
                     = Cardinality({i \in DOMAIN credits : credits[i] = w})
            /\ (DOMAIN credits = {}) => result.keyword_counts = EmptyBag

\* C17 witness: a call on a fragment that contains two keywords (".com",
\* then "Follow" in the order of NOISE_KEYWORDS) and a fragment that contains
\* none has returned: one credit, for ".com", and one fragment retained.
C17_Witness ==
    /\ Returned
    /\ text_list = <<Str("Follow x.com"), Str("hello world")>>
    /\ filter_noise_keywords(text_list).keyword_counts = SetToBag({Str(".com")})
    /\ Contains(Folded(text_list[1]), Folded(Str("Follow")))
    /\ filter_noise_keywords(text_list).cleaned_list = <<Str("hello world")>>


----------------------------------------------------------------------------
(* Properties of normalize's statements (specification SpecNormalize).     *)

\* The stages in the order the claim gives them, each applied to the result
\* of the one before it.
Repaired == fix_text(call.text)
Requoted == fix_quotes(Repaired)
WithoutUrls == sub_unless_none(URL_HANDLER_REGEX, call.url_replacement, Requoted)
WithoutPunctuation == sub_unless_none(PUNCT_HANDLER_REGEX, call.punct_replacement, WithoutUrls)
WithoutEmojis == sub_unless_none(EMOJI_HANDLER_REGEX, call.emoji_replacement, WithoutPunctuation)
CharsFolded == translate(WithoutEmojis, CHAR_REPLACEMENTS)
NormalizedBefore ==
    IF call.apply_unicode_norm_last THEN CharsFolded
    ELSE unicodedata_normalize(call.unicode_norm, CharsFolded)
MultiCharReplaced == unicode_replacements_sub(NormalizedBefore)
NormalizedAfter ==
    IF call.apply_unicode_norm_last
    THEN unicodedata_normalize(call.unicode_norm, MultiCharReplaced)
    ELSE MultiCharReplaced
Collapsed == re_sub(WHITESPACE_HANDLER_REGEX, <<" ">>, NormalizedAfter)
Trimmed == str_strip(Collapsed)

\* One step of a call, as the claim orders the stages.
StageStep ==
    /\ pc = "fix_text" =>
        /\ pc' = "fix_quotes" /\ normalized' = normalized
        /\ local_text' = fix_text(local_text)
    /\ pc = "fix_quotes" =>
        /\ pc' = "url" /\ normalized' = normalized
        /\ local_text' = fix_quotes(local_text)
    /\ pc = "url" =>
        /\ pc' = "punct" /\ normalized' = normalized
        /\ local_text' = sub_unless_none(URL_HANDLER_REGEX, call.url_replacement, local_text)
    /\ pc = "punct" =>
        /\ pc' = "emoji" /\ normalized' = normalized
        /\ local_text' = sub_unless_none(PUNCT_HANDLER_REGEX, call.punct_replacement, local_text)
    /\ pc = "emoji" =>
        /\ pc' = "translate" /\ normalized' = normalized
        /\ local_text' = sub_unless_none(EMOJI_HANDLER_REGEX, call.emoji_replacement, local_text)
    /\ pc = "translate" =>
        /\ pc' = "norm_first" /\ normalized' = normalized
        /\ local_text' = translate(local_text, CHAR_REPLACEMENTS)
    /\ pc = "norm_first" =>
        /\ pc' = "replacements"
        /\ normalized' = IF call.apply_unicode_norm_last THEN 0 ELSE 1
        /\ local_text' = normalize_when(~call.apply_unicode_norm_last,
                                        call.unicode_norm, local_text)
    /\ pc = "replacements" =>
        /\ pc' = "norm_last" /\ normalized' = normalized
        /\ local_text' = unicode_replacements_sub(local_text)
    /\ pc = "norm_last" =>
        /\ pc' = "whitespace"
        /\ normalized' = 1
        /\ local_text' = normalize_when(call.apply_unicode_norm_last,
                                        call.unicode_norm, local_text)
    /\ pc = "whitespace" =>
        /\ pc' = "return" /\ normalized' = normalized
        /\ local_text' = re_sub(WHITESPACE_HANDLER_REGEX, <<" ">>, local_text)
    /\ pc = "return" =>
        /\ pc' = "done" /\ normalized' = normalized
        /\ local_text' = str_strip(local_text)

\* C18: every step of a call applies the stage the claim gives for its place
\* (repair, quotes, URLs, punctuation, emojis, character folding, the
\* configured normalization if it is not deferred, the multi-character pass,
\* the configured normalization if it is deferred, whitespace, trim) to the
\* text the step before left, and goes on to the next place; the configured
\* normalization is counted at those two places only, and a call that is
\* over has applied it once and holds the stages' result.
C18_StagesInOrder ==
    /\ [][StageStep]_vars
    /\ [](pc = "done" => normalized = 1 /\ local_text = Trimmed)

\* C18 witness: a default call on a text with a compatibility character and
\* punctuation is over: the punctuation went before the one normalization,
\* after the pass, put brackets in the character's place.
C18_Witness ==
    /\ pc = "done"
    /\ call.text = <<"a", "U+2474", "!">>
    /\ call.apply_unicode_norm_last /\ call.punct_replacement = <<" ">>
    /\ normalized = 1
    /\ local_text = Str("a(1)")


\* What the pass makes of the sequence U+09C7, X, U+09D7: the pair entries
\* and the entry with U+0981 stand before the group pattern; any other X is
\* kept, without the U+09C7 before it, and U+09CC is put after it.
Rewritten(X) ==
    CASE X = "U+09D7" -> <<"U+09CC", "U+09D7">>
      [] X = "U+09BE" -> <<"U+09CB", "U+09D7">>
      [] X = "U+0981" -> <<"U+09CC", "U+0981">>
      [] OTHER -> <<X, "U+09CC">>

\* Texts of consonants, which are part of no key.
Consonants == UNION {[1..n -> {"U+0995"}] : n \in 0..MaxText}

\* C19: a sequence U+09C7, X, U+09D7 between consonants is rewritten to X
\* followed by U+09CC when X is none of U+09D7, U+0981 and U+09BE: the
\* middle code point is kept and the first is dropped.  With X = U+0981 the
\* explicit entry gives U+09CC U+0981; with X = U+09BE or X = U+09D7 the pair
\* entry matches first and the final U+09D7 stays, so the rule does not
\* rewrite these.
C19_BackReferenceKeepsMiddle ==
    pc = "norm_last" =>
        \A X \in ReplacedChars : \A before, after \in Consonants :
            call = before \o <<"U+09C7", X, "U+09D7">> \o after =>
                local_text = before \o Rewritten(X) \o after

\* C19 witness: the pass has run on U+09C7, U+0995, U+09D7 and has left
\* U+0995, U+09CC.
C19_Witness ==
    /\ pc = "norm_last"
    /\ call = <<"U+09C7", "U+0995", "U+09D7">>
    /\ local_text = <<"U+0995", "U+09CC">>

\* C19, as the specification states it: the first code point of the sequence
\* is kept and U+09CC is put after it.
C19_AsStated ==
    pc = "norm_last" =>
        \A X \in ReplacedChars \ {"U+09D7"} :
            call = <<"U+09C7", X, "U+09D7">> => local_text = <<"U+09C7", "U+09CC">>

=============================================================================
